---------------------------- MODULE Spec2Model ----------------------------
(***************************************************************************)
(* Veritas Football: the pairwise ranking wizard (services/wizard.js and   *)
(* components/RankingWizard.js), the two-sided lineup distribution         *)
(* (services/distribution.js) and the matchup life cycle of MatchupScreen  *)
(* (screens/ChatScreen.js, third MatchupScreen of the file).               *)
(*                                                                         *)
(* Several specifications share the module: SpecWizard (and its fair,     *)
(* reset-free variant SpecWizardFair), SpecCall, SpecResume and SpecSort   *)
(* for the wizard,                                                         *)
(* SpecDist for the distribution, SpecContest, SpecPoller, SpecTick,       *)
(* SpecMidweek, SpecCreate and SpecEditor for the matchup, SpecScoring and *)
(* SpecSync for                                                            *)
(* the live scoring service.  Each one keeps the variables of the other    *)
(* subsystems at their initial values.                                     *)
(***************************************************************************)
EXTENDS Integers, Sequences, FiniteSets, TLC

VARIABLES
    \* ---- RankingWizard component state (RankingWizard.js 28-37)
    rankings,               \* array of { id, rank, isCompared }
    isPromoting,
    promotedPlayerId,
    currentPromotionIndex,
    originalComparisonIds,
    rankingRow,             \* the user_rankings row of this user/position/format
    promotionSteps,         \* history: handlePromotion calls of the running cycle
    storeFailures,          \* history: failed writes to user_rankings
    \* ---- one run of distributeMatchupLineups (distribution.js 126-247)
    dpc,                    \* "idle", "loop", "done"
    rankings1, rankings2,   \* position -> ranked_ids of user 1 / user 2
    rosterSettings,         \* position -> slot count
    players,                \* the nfl_players rows, by id
    currentWeek,
    assigned, posIdx, poolA, poolB, filled,
    lineupA, lineupB, totalA, totalB, success,
    burned,                 \* history: the ids burned by conflicts in this run
    \* ---- the matchups table and the two users' MatchupScreen sessions
    matchups,               \* the rows of the pair, in insertion order (id = index)
    session,                \* user id -> the React state of that user's screen
    liveTotals,             \* user id -> live total of that user's lineup
    \* ---- one evaluation of the poller's decision functions
    games,                  \* the games of the week: { start_time, status }
    now,                    \* Date.now(), in hours
    pollDecision,           \* what shouldPollScores(games) returned, if called
    finalDecision,          \* what areAllGamesFinal(games) returned, if called
    \* ---- one run of updateCurrentWeekStats(liveStats, week)
    liveStats,              \* the player ids that liveStats has stats for
    week,
    syncPc,                 \* "idle", "loop", "done"
    batchStart,             \* the loop variable i
    totalUpdated,
    statsTable,             \* nfl_players: id -> stats_week
    syncResult,             \* the returned object
    \* ---- direct calls of the functions of services/wizard.js
    resolved,               \* the arguments and the result of processSelection
    nextPair                \* the result of findNextComparison

wizardVars == <<rankings, isPromoting, promotedPlayerId, currentPromotionIndex,
                originalComparisonIds, rankingRow, promotionSteps, storeFailures>>
distVars == <<dpc, rankings1, rankings2, rosterSettings, players, currentWeek,
              assigned, posIdx, poolA, poolB, filled,
              lineupA, lineupB, totalA, totalB, success, burned>>
contestVars == <<matchups, session, liveTotals>>
scoringVars == <<games, now, pollDecision, finalDecision>>
syncVars == <<liveStats, week, syncPc, batchStart, totalUpdated, statsTable, syncResult>>
callVars == <<resolved, nextPair>>
serviceVars == <<scoringVars, syncVars, callVars>>
vars == <<wizardVars, distVars, contestVars, serviceVars>>

(***************************************************************************)
(* Bounds of the model.                                                    *)
(***************************************************************************)
MaxPlayers == 4     \* a wizard session ranks 0..MaxPlayers players
MaxStoreFailures == 1  \* writes to user_rankings that fail in one session
NumEntities == 4    \* player ids 1..NumEntities appear in ranked lists
MaxListLen == 2     \* length of a ranked_ids list
MaxSlots == 2       \* slot count of a position in rosterSettings
MaxDegraded == 1    \* players that are stale or absent from nfl_players
MaxCount == 1       \* slot count a user sets for a position in the matchup
MaxTotal == 1       \* live total of a lineup
MaxLeaked == 1      \* intervals of one user that no cleanup clears
MaxRows == 3        \* rows of the pair in the matchups table
MaxGames == 2       \* games of the week in the schedule
MaxKickoff == 3     \* latest kickoff hour of a game (the earliest is PollLeadHours)
MaxStatIds == 5     \* player ids 1..MaxStatIds may have live stats
MaxWeek == 2        \* the week of a stat sync is 1..MaxWeek
BATCH_SIZE == 2     \* records of one upsert (500 in the code)

\* JavaScript null / "no such element", for ids and 1-based indexes (all >= 1)
null == 0
\* A nullable number whose values include 0: <<>> is null, <<n>> is n
None == <<>>
Some(n) == <<n>>

(***************************************************************************)
(* Array helpers (JavaScript arrays are 0-based, sequences 1-based).       *)
(***************************************************************************)
\* Array.prototype.findIndex, 1-based; 0 when no element passes the test
FindIndex(arr, Test(_)) ==
    IF \E i \in 1..Len(arr) : Test(arr[i])
    THEN CHOOSE i \in 1..Len(arr) :
            Test(arr[i]) /\ \A j \in 1..(i - 1) : ~Test(arr[j])
    ELSE null

\* Array.prototype.splice(index, 1) on a 1-based index
RemoveAt(arr, i) == [k \in 1..(Len(arr) - 1) |-> IF k < i THEN arr[k] ELSE arr[k + 1]]

\* Array.prototype.splice(index, 0, x): x lands at 1-based position i, or at
\* the end when i is beyond it
InsertAt(arr, i, x) ==
    LET at == IF i > Len(arr) + 1 THEN Len(arr) + 1 ELSE i
    IN  [k \in 1..(Len(arr) + 1) |->
            IF k < at THEN arr[k] ELSE IF k = at THEN x ELSE arr[k - 1]]

\* Array.prototype.filter
Filter(arr, Keep(_)) ==
    LET kept == {i \in 1..Len(arr) : Keep(arr[i])}
        Nth(k) == CHOOSE i \in kept : Cardinality({j \in kept : j <= i}) = k
    IN  [k \in 1..Cardinality(kept) |-> arr[Nth(k)]]

\* Array.prototype.indexOf, 0-based as in JavaScript; -1 when absent
IndexOf(arr, x) ==
    LET Is(y) == y = x
    IN  FindIndex(arr, Is) - 1

\* An array left in the order it has
NotSorted(arr) == arr

\* Array.prototype.sort((a, b) => a.rank - b.rank), which is stable: element
\* i lands after every element of lower rank and after the earlier elements
\* of its own rank
SortByRank(arr) ==
    LET Before(i) == {j \in 1..Len(arr) :
                        \/ arr[j].rank < arr[i].rank
                        \/ arr[j].rank = arr[i].rank /\ j < i}
    IN  [k \in 1..Len(arr) |->
            arr[CHOOSE i \in 1..Len(arr) : Cardinality(Before(i)) = k - 1]]

(***************************************************************************)
(* services/wizard.js                                                      *)
(***************************************************************************)
IsUncompared(p) == p.isCompared = FALSE

\* A findNextComparison that pairs the first uncompared player with the
\* player ranked one place below
findNextComparisonWithNextBelow(rs) ==
    IF Len(rs) < 2 THEN <<>>
    ELSE LET u == FindIndex(rs, IsUncompared)
         IN  IF u = null THEN <<>>
             ELSE LET lowestUncompared == rs[u]
                      uncomparedRank == lowestUncompared.rank
                      HasRankBelow(p) == p.rank = uncomparedRank + 1
                  IN  IF FindIndex(rs, HasRankBelow) = null THEN <<>>
                      ELSE <<lowestUncompared, rs[FindIndex(rs, HasRankBelow)]>>

\* A findNextComparison without the case of an uncompared rank 1: it looks
\* for the player of rank uncomparedRank - 1 in every case
findNextComparisonNoTopCase(rs) ==
    IF Len(rs) < 2 THEN <<>>
    ELSE LET u == FindIndex(rs, IsUncompared)
         IN  IF u = null THEN <<>>
             ELSE LET lowestUncompared == rs[u]
                      uncomparedRank == lowestUncompared.rank
                      HasRankAbove(p) == p.rank = uncomparedRank - 1
                  IN  IF FindIndex(rs, HasRankAbove) = null THEN <<>>
                      ELSE <<rs[FindIndex(rs, HasRankAbove)], lowestUncompared>>

\* findNextComparison: <<playerA, playerB>>, or <<>> for null
findNextComparison(rs) ==
    IF Len(rs) < 2 THEN <<>>
    ELSE LET u == FindIndex(rs, IsUncompared)
         IN  IF u = null THEN <<>>
             ELSE LET lowestUncompared == rs[u]
                      uncomparedRank == lowestUncompared.rank
                      HasRank2(p) == p.rank = 2
                      HasRankAbove(p) == p.rank = uncomparedRank - 1
                  IN  IF uncomparedRank = 1
                      THEN IF FindIndex(rs, HasRank2) = null THEN <<>>
                           ELSE <<lowestUncompared, rs[FindIndex(rs, HasRank2)]>>
                      ELSE IF FindIndex(rs, HasRankAbove) = null THEN <<>>
                           ELSE <<rs[FindIndex(rs, HasRankAbove)], lowestUncompared>>

\* A processSelection whose last case marks the winner only
processSelectionWinnerOnly(rs, winnerId, loserId) ==
    LET IsWinner(p) == p.id = winnerId
        IsLoser(p) == p.id = loserId
        w == FindIndex(rs, IsWinner)
        l == FindIndex(rs, IsLoser)
    IN  IF w = null \/ l = null
        THEN [threw |-> TRUE, rankings |-> rs, shouldPromote |-> FALSE,
              promotedPlayerId |-> null]
        ELSE IF rs[l].rank = 1 /\ rs[w].rank = 2
        THEN [threw |-> FALSE,
              rankings |-> SortByRank(
                  [i \in 1..Len(rs) |->
                      IF rs[i].id = winnerId
                      THEN [rs[i] EXCEPT !.rank = 1, !.isCompared = TRUE]
                      ELSE IF rs[i].id = loserId
                      THEN [rs[i] EXCEPT !.rank = 2, !.isCompared = TRUE]
                      ELSE rs[i]]),
              shouldPromote |-> FALSE, promotedPlayerId |-> null]
        ELSE IF rs[w].rank > rs[l].rank
        THEN [threw |-> FALSE, rankings |-> rs, shouldPromote |-> TRUE,
              promotedPlayerId |-> winnerId]
        ELSE [threw |-> FALSE,
              rankings |-> [i \in 1..Len(rs) |->
                      IF rs[i].id = winnerId
                      THEN [rs[i] EXCEPT !.isCompared = TRUE]
                      ELSE rs[i]],
              shouldPromote |-> FALSE, promotedPlayerId |-> null]

\* A processSelection that returns the rankings as they are, without an
\* Error, when it does not find one of the two players
processSelectionNoThrow(rs, winnerId, loserId) ==
    LET IsWinner(p) == p.id = winnerId
        IsLoser(p) == p.id = loserId
        w == FindIndex(rs, IsWinner)
        l == FindIndex(rs, IsLoser)
    IN  IF w = null \/ l = null
        THEN [threw |-> FALSE, rankings |-> rs, shouldPromote |-> FALSE,
              promotedPlayerId |-> null]
        ELSE IF rs[l].rank = 1 /\ rs[w].rank = 2
        THEN [threw |-> FALSE,
              rankings |-> SortByRank(
                  [i \in 1..Len(rs) |->
                      IF rs[i].id = winnerId
                      THEN [rs[i] EXCEPT !.rank = 1, !.isCompared = TRUE]
                      ELSE IF rs[i].id = loserId
                      THEN [rs[i] EXCEPT !.rank = 2, !.isCompared = TRUE]
                      ELSE rs[i]]),
              shouldPromote |-> FALSE, promotedPlayerId |-> null]
        ELSE IF rs[w].rank > rs[l].rank
        THEN [threw |-> FALSE, rankings |-> rs, shouldPromote |-> TRUE,
              promotedPlayerId |-> winnerId]
        ELSE [threw |-> FALSE,
              rankings |-> [i \in 1..Len(rs) |->
                      IF rs[i].id = winnerId \/ rs[i].id = loserId
                      THEN [rs[i] EXCEPT !.isCompared = TRUE]
                      ELSE rs[i]],
              shouldPromote |-> FALSE, promotedPlayerId |-> null]

\* processSelection: the returned object, with threw = TRUE for the Error
processSelection(rs, winnerId, loserId) ==
    LET IsWinner(p) == p.id = winnerId
        IsLoser(p) == p.id = loserId
        w == FindIndex(rs, IsWinner)
        l == FindIndex(rs, IsLoser)
    IN  IF w = null \/ l = null
        THEN [threw |-> TRUE, rankings |-> rs, shouldPromote |-> FALSE,
              promotedPlayerId |-> null]
        ELSE IF rs[l].rank = 1 /\ rs[w].rank = 2
        THEN [threw |-> FALSE,
              rankings |-> SortByRank(
                  [i \in 1..Len(rs) |->
                      IF rs[i].id = winnerId
                      THEN [rs[i] EXCEPT !.rank = 1, !.isCompared = TRUE]
                      ELSE IF rs[i].id = loserId
                      THEN [rs[i] EXCEPT !.rank = 2, !.isCompared = TRUE]
                      ELSE rs[i]]),
              shouldPromote |-> FALSE, promotedPlayerId |-> null]
        ELSE IF rs[w].rank > rs[l].rank
        THEN [threw |-> FALSE, rankings |-> rs, shouldPromote |-> TRUE,
              promotedPlayerId |-> winnerId]
        ELSE [threw |-> FALSE,
              rankings |-> [i \in 1..Len(rs) |->
                      IF rs[i].id = winnerId \/ rs[i].id = loserId
                      THEN [rs[i] EXCEPT !.isCompared = TRUE]
                      ELSE rs[i]],
              shouldPromote |-> FALSE, promotedPlayerId |-> null]

\* A movePlayerToRank without its last step, the renumbering by index
movePlayerToRankNotRenumbered(rs, playerId, newRank) ==
    LET IsPlayer(p) == p.id = playerId
        playerIndex == FindIndex(rs, IsPlayer)
    IN  IF playerIndex = null THEN rs
        ELSE InsertAt(RemoveAt(rs, playerIndex), newRank, rs[playerIndex])

\* movePlayerToRank: splice out, splice in at newRank, renumber by index
movePlayerToRank(rs, playerId, newRank) ==
    LET IsPlayer(p) == p.id = playerId
        playerIndex == FindIndex(rs, IsPlayer)
    IN  IF playerIndex = null THEN rs
        ELSE LET moved == InsertAt(RemoveAt(rs, playerIndex), newRank, rs[playerIndex])
             IN  [i \in 1..Len(moved) |-> [moved[i] EXCEPT !.rank = i]]

\* A handlePromotionChoice that puts a promoted player that lost at the rank
\* of the player that beat it
handlePromotionChoiceAtWinner(rs, promotedId, cpi, selectedPlayerId) ==
    LET IsPromoted(p) == p.id = promotedId
        nextPromotionIndex == cpi - 1
    IN  IF FindIndex(rs, IsPromoted) = null \/ cpi < 1 \/ cpi > Len(rs)
        THEN [threw |-> TRUE, rankings |-> rs, continuePromotion |-> FALSE,
              newPromotionIndex |-> null]
        ELSE IF selectedPlayerId = promotedId
        THEN IF nextPromotionIndex <= 0
             THEN [threw |-> FALSE, rankings |-> movePlayerToRank(rs, promotedId, 1),
                   continuePromotion |-> FALSE, newPromotionIndex |-> null]
             ELSE [threw |-> FALSE, rankings |-> rs,
                   continuePromotion |-> TRUE, newPromotionIndex |-> nextPromotionIndex]
        ELSE [threw |-> FALSE, rankings |-> movePlayerToRank(rs, promotedId, cpi),
              continuePromotion |-> FALSE, newPromotionIndex |-> null]

\* A handlePromotionChoice that tests nextPromotionIndex < 0 for the top
handlePromotionChoicePastTop(rs, promotedId, cpi, selectedPlayerId) ==
    LET IsPromoted(p) == p.id = promotedId
        nextPromotionIndex == cpi - 1
    IN  IF FindIndex(rs, IsPromoted) = null \/ cpi < 1 \/ cpi > Len(rs)
        THEN [threw |-> TRUE, rankings |-> rs, continuePromotion |-> FALSE,
              newPromotionIndex |-> null]
        ELSE IF selectedPlayerId = promotedId
        THEN IF nextPromotionIndex < 0
             THEN [threw |-> FALSE, rankings |-> movePlayerToRank(rs, promotedId, 1),
                   continuePromotion |-> FALSE, newPromotionIndex |-> null]
             ELSE [threw |-> FALSE, rankings |-> rs,
                   continuePromotion |-> TRUE, newPromotionIndex |-> nextPromotionIndex]
        ELSE [threw |-> FALSE, rankings |-> movePlayerToRank(rs, promotedId, cpi + 1),
              continuePromotion |-> FALSE, newPromotionIndex |-> null]

\* handlePromotionChoice: the returned object, with threw = TRUE for the Error.
\* rankings[currentPromotionIndex - 1] of the 0-based array is element
\* cpi of the sequence.
handlePromotionChoice(rs, promotedId, cpi, selectedPlayerId) ==
    LET IsPromoted(p) == p.id = promotedId
        nextPromotionIndex == cpi - 1
    IN  IF FindIndex(rs, IsPromoted) = null \/ cpi < 1 \/ cpi > Len(rs)
        THEN [threw |-> TRUE, rankings |-> rs, continuePromotion |-> FALSE,
              newPromotionIndex |-> null]
        ELSE IF selectedPlayerId = promotedId
        THEN IF nextPromotionIndex <= 0
             THEN [threw |-> FALSE, rankings |-> movePlayerToRank(rs, promotedId, 1),
                   continuePromotion |-> FALSE, newPromotionIndex |-> null]
             ELSE [threw |-> FALSE, rankings |-> rs,
                   continuePromotion |-> TRUE, newPromotionIndex |-> nextPromotionIndex]
        ELSE [threw |-> FALSE, rankings |-> movePlayerToRank(rs, promotedId, cpi + 1),
              continuePromotion |-> FALSE, newPromotionIndex |-> null]

\* The row saveWizardState upserts: ranked_ids by rank, comparison_state by id
WizardRow(rs) ==
    LET sorted == SortByRank(rs)
    IN  [exists |-> TRUE,
         ranked_ids |-> [i \in 1..Len(sorted) |-> sorted[i].id],
         comparison_state |->
            [id \in {rs[i].id : i \in 1..Len(rs)} |->
                LET HasId(p) == p.id = id
                    p == rs[FindIndex(rs, HasId)]
                IN  [rank |-> p.rank, isCompared |-> p.isCompared]]]

NoRow == [exists |-> FALSE, ranked_ids |-> <<>>, comparison_state |-> <<>>]

\* saveWizardState: the upsert succeeds, or fails and leaves the row as it was
saveWizardState(rs) ==
    \/ /\ rankingRow' = WizardRow(rs)
       /\ UNCHANGED storeFailures
    \/ /\ storeFailures < MaxStoreFailures
       /\ storeFailures' = storeFailures + 1
       /\ UNCHANGED rankingRow

\* resetWizardState: update ... set comparison_state = {} on the row, if any
resetWizardState ==
    \/ /\ rankingRow' = IF rankingRow.exists
                        THEN [rankingRow EXCEPT !.comparison_state = <<>>]
                        ELSE rankingRow
       /\ UNCHANGED storeFailures
    \/ /\ storeFailures < MaxStoreFailures
       /\ storeFailures' = storeFailures + 1
       /\ UNCHANGED rankingRow

(***************************************************************************)
(* components/RankingWizard.js                                             *)
(***************************************************************************)
\* The initialisation effect: rank = index + 1, isCompared = false
InitialRankings(n) == [i \in 1..n |-> [id |-> i, rank |-> i, isCompared |-> FALSE]]

AllCompared(rs) == \A i \in 1..Len(rs) : rs[i].isCompared

\* A handleSelection that starts the promotion at the place of the loser,
\* so that the first duel is against the loser
handleSelectionFromLoser(selectedPlayerId) ==
    LET pair == findNextComparison(rankings)
    IN  /\ ~isPromoting
        /\ pair # <<>>
        /\ selectedPlayerId \in {pair[1].id, pair[2].id}
        /\ LET playerA == pair[1]
               playerB == pair[2]
               loserId == IF selectedPlayerId = playerA.id THEN playerB.id ELSE playerA.id
               IsLoser(p) == p.id = loserId
           IN  \E result \in {processSelection(rankings, selectedPlayerId, loserId)} :
               /\ originalComparisonIds' = [playerAId |-> playerA.id, playerBId |-> playerB.id]
               /\ IF result.threw
                  THEN UNCHANGED <<rankings, isPromoting, promotedPlayerId,
                                   currentPromotionIndex, rankingRow, promotionSteps,
                                   storeFailures>>
                  ELSE IF result.shouldPromote
                  THEN /\ isPromoting' = TRUE
                       /\ promotedPlayerId' = result.promotedPlayerId
                       \* one place too low
                       /\ currentPromotionIndex' = Some(FindIndex(rankings, IsLoser))
                       /\ rankings' = result.rankings
                       /\ promotionSteps' = 0
                       /\ UNCHANGED <<rankingRow, storeFailures>>
                  ELSE /\ rankings' = result.rankings
                       /\ saveWizardState(result.rankings)
                       /\ UNCHANGED <<isPromoting, promotedPlayerId,
                                      currentPromotionIndex, promotionSteps>>

\* handleSelection(selectedPlayerId), offered for playerA and playerB while
\* the component is not in promotion mode
handleSelection(selectedPlayerId) ==
    LET pair == findNextComparison(rankings)
    IN  /\ ~isPromoting
        /\ pair # <<>>
        /\ selectedPlayerId \in {pair[1].id, pair[2].id}
        /\ LET playerA == pair[1]
               playerB == pair[2]
               loserId == IF selectedPlayerId = playerA.id THEN playerB.id ELSE playerA.id
               IsLoser(p) == p.id = loserId
           IN  \E result \in {processSelection(rankings, selectedPlayerId, loserId)} :
               /\ originalComparisonIds' = [playerAId |-> playerA.id, playerBId |-> playerB.id]
               /\ IF result.threw
                  THEN UNCHANGED <<rankings, isPromoting, promotedPlayerId,
                                   currentPromotionIndex, rankingRow, promotionSteps,
                                   storeFailures>>
                  ELSE IF result.shouldPromote
                  THEN /\ isPromoting' = TRUE
                       /\ promotedPlayerId' = result.promotedPlayerId
                       \* findIndex is 0-based
                       /\ currentPromotionIndex' = Some(FindIndex(rankings, IsLoser) - 1)
                       /\ rankings' = result.rankings
                       /\ promotionSteps' = 0
                       /\ UNCHANGED <<rankingRow, storeFailures>>
                  ELSE /\ rankings' = result.rankings
                       /\ saveWizardState(result.rankings)
                       /\ UNCHANGED <<isPromoting, promotedPlayerId,
                                      currentPromotionIndex, promotionSteps>>

\* handlePromotion(selectedPlayerId), offered for the promoting player and for
\* the comparison player rankings[currentPromotionIndex - 1]
handlePromotion(selectedPlayerId) ==
    /\ isPromoting
    /\ promotedPlayerId # null
    /\ currentPromotionIndex # None
    /\ LET cpi == currentPromotionIndex[1]
       IN  \E result \in {handlePromotionChoice(rankings, promotedPlayerId, cpi,
                                                selectedPlayerId)} :
           /\ \/ selectedPlayerId = promotedPlayerId
              \/ cpi > 0 /\ cpi <= Len(rankings) /\ selectedPlayerId = rankings[cpi].id
           /\ IF result.threw
              THEN UNCHANGED <<rankings, isPromoting, promotedPlayerId, currentPromotionIndex,
                               originalComparisonIds, rankingRow, promotionSteps,
                               storeFailures>>
              ELSE IF result.continuePromotion
              THEN /\ currentPromotionIndex' = Some(result.newPromotionIndex)
                   /\ rankings' = result.rankings
                   /\ promotionSteps' = promotionSteps + 1
                   /\ UNCHANGED <<isPromoting, promotedPlayerId, originalComparisonIds,
                                  rankingRow, storeFailures>>
              ELSE LET finalRankings ==
                           [i \in 1..Len(result.rankings) |->
                               IF \/ result.rankings[i].id = originalComparisonIds.playerAId
                                  \/ result.rankings[i].id = originalComparisonIds.playerBId
                               THEN [result.rankings[i] EXCEPT !.isCompared = TRUE]
                               ELSE result.rankings[i]]
                   IN  /\ isPromoting' = FALSE
                       /\ promotedPlayerId' = null
                       /\ currentPromotionIndex' = None
                       /\ rankings' = finalRankings
                       /\ saveWizardState(finalRankings)
                       /\ promotionSteps' = promotionSteps + 1
                       /\ UNCHANGED originalComparisonIds

\* A reset that puts the players back in their initial order
handleResetToInitialOrder ==
    /\ resetWizardState
    /\ rankings' = InitialRankings(Len(rankings))
    /\ isPromoting' = FALSE
    /\ promotedPlayerId' = null
    /\ currentPromotionIndex' = None
    /\ promotionSteps' = 0
    /\ UNCHANGED originalComparisonIds

\* handleReset, confirmed in the alert
handleReset ==
    /\ resetWizardState
    /\ rankings' = [i \in 1..Len(rankings) |-> [rankings[i] EXCEPT !.isCompared = FALSE]]
    /\ isPromoting' = FALSE
    /\ promotedPlayerId' = null
    /\ currentPromotionIndex' = None
    /\ promotionSteps' = 0
    /\ UNCHANGED originalComparisonIds

\* loadWizardState: the saved state of the row, null (None) when there is no
\* row or the select fails
loadWizardState(ok) ==
    IF ok /\ rankingRow.exists
    THEN Some([rankedIds |-> rankingRow.ranked_ids,
               comparisonState |-> rankingRow.comparison_state])
    ELSE None

\* WizardScreen.loadPlayers (screens/WizardScreen.js) from the answer of
\* loadWizardState on: filteredPlayers are the ids of the position's players
\* in the order of the query.  With a saved state the players come in the
\* order of rankedIds with the rank and the flag of comparisonState, the
\* players not in rankedIds after them; without one, in the order of their
\* projections, which for the players 1, 2, ... is the order of the ids
loadPlayers(wizardState, filteredPlayers) ==
    IF wizardState # None /\ Len(wizardState[1].rankedIds) > 0
    THEN LET rankedIds == wizardState[1].rankedIds
             comparisonState == wizardState[1].comparisonState
             Known(id) == \E i \in 1..Len(filteredPlayers) : filteredPlayers[i] = id
             Unranked(id) == \A i \in 1..Len(rankedIds) : rankedIds[i] # id
             restored == Filter(rankedIds, Known)
             added == Filter(filteredPlayers, Unranked)
         IN  [i \in 1..(Len(restored) + Len(added)) |->
                 IF i <= Len(restored)
                 THEN [id |-> restored[i],
                       rank |-> IF restored[i] \in DOMAIN comparisonState
                                THEN comparisonState[restored[i]].rank
                                ELSE IndexOf(rankedIds, restored[i]) + 1,
                       isCompared |-> IF restored[i] \in DOMAIN comparisonState
                                      THEN comparisonState[restored[i]].isCompared
                                      ELSE FALSE]
                 ELSE [id |-> added[i - Len(restored)], rank |-> i, isCompared |-> FALSE]]
    ELSE [i \in 1..Len(filteredPlayers) |->
             [id |-> filteredPlayers[i], rank |-> i, isCompared |-> FALSE]]

\* The initialisation effect of RankingWizard on the players it is given:
\* id: player.id, rank: index + 1, isCompared: false
initialRankings(initialPlayers) ==
    [index \in 1..Len(initialPlayers) |->
        [id |-> initialPlayers[index].id, rank |-> index, isCompared |-> FALSE]]

\* The user leaves the wizard and opens it again for the same position and
\* format: WizardScreen loads the saved state and the players, and a new
\* RankingWizard is mounted with them
resume(ok) ==
    LET filteredPlayers == [i \in 1..Len(rankings) |-> i]
    IN  /\ rankings' = initialRankings(loadPlayers(loadWizardState(ok), filteredPlayers))
        /\ isPromoting' = FALSE
        /\ promotedPlayerId' = null
        /\ currentPromotionIndex' = None
        /\ originalComparisonIds' = [playerAId |-> null, playerBId |-> null]
        /\ promotionSteps' = 0
        /\ UNCHANGED <<rankingRow, storeFailures>>

\* A caller of processSelection(rankings, winnerId, loserId) with whatever
\* ids: the function builds new arrays and leaves its argument alone
callProcessSelection(winnerId, loserId) ==
    /\ resolved = None
    /\ resolved' = Some([winnerId |-> winnerId, loserId |-> loserId,
                         result |-> processSelection(rankings, winnerId, loserId)])
    /\ UNCHANGED nextPair

\* The call of findNextComparison(rankings) in the render of the component
callFindNextComparison ==
    /\ nextPair = None
    /\ nextPair' = Some(findNextComparison(rankings))
    /\ UNCHANGED resolved

WizardInit ==
    /\ \E n \in 0..MaxPlayers : rankings = InitialRankings(n)
    /\ isPromoting = FALSE
    /\ promotedPlayerId = null
    /\ currentPromotionIndex = None
    /\ originalComparisonIds = [playerAId |-> null, playerBId |-> null]
    /\ rankingRow = NoRow
    /\ promotionSteps = 0
    /\ storeFailures = 0

PlayerIds == 1..MaxPlayers

Select ==
    /\ \E id \in PlayerIds : handleSelection(id)
    /\ UNCHANGED <<distVars, contestVars, serviceVars>>
Promote ==
    /\ \E id \in PlayerIds : handlePromotion(id)
    /\ UNCHANGED <<distVars, contestVars, serviceVars>>
Reset ==
    /\ handleReset
    /\ UNCHANGED <<distVars, contestVars, serviceVars>>

(***************************************************************************)
(* services/distribution.js                                                *)
(***************************************************************************)
POSITIONS == <<"QB", "RB", "WR", "TE", "FLEX", "SUPERFLEX", "K", "DEF">>
PositionSet == {POSITIONS[i] : i \in 1..Len(POSITIONS)}

\* playerMap[id] of the fetched rows: the row, or null when no row came back
HasPlayer(id) == id \in DOMAIN players

\* A slot.live that takes the stat whatever week it is of
LiveScoreAnyWeek(player) == player.current_week_stats

\* slot.live: the current-week stat only when stats_week is the current week
LiveScore(player) ==
    IF player.stats_week = currentWeek THEN player.current_week_stats ELSE 0

EmptySlot(position) ==
    [position |-> position, player |-> null, rank |-> null,
     projected |-> 0, live |-> 0, empty |-> TRUE]

FilledSlot(position, id, rank) ==
    [position |-> position, player |-> id, rank |-> rank,
     projected |-> players[id].projections, live |-> LiveScore(players[id]),
     empty |-> FALSE]

\* A reduce that adds up slot.projected instead of slot.live
RECURSIVE SumProjected(_)
SumProjected(lineup) ==
    IF lineup = <<>> THEN 0
    ELSE SumProjected(SubSeq(lineup, 1, Len(lineup) - 1)) + lineup[Len(lineup)].projected

\* lineup.reduce((sum, slot) => sum + (slot.live || 0), 0)
RECURSIVE SumLive(_)
SumLive(lineup) ==
    IF lineup = <<>> THEN 0
    ELSE SumLive(SubSeq(lineup, 1, Len(lineup) - 1)) + lineup[Len(lineup)].live

\* Pools that ignore the assigned set
PoolUnfiltered(ranked, taken) == ranked

\* The pools distributePosition starts with: the ranked ids not yet assigned
Pool(ranked, taken) ==
    LET Free(id) == id \notin taken
    IN  Filter(ranked, Free)

\* POSITIONS.forEach skips the positions whose count is 0: the index of the
\* first position from i on with slots to fill, Len(POSITIONS) + 1 if none
RECURSIVE NextActive(_)
NextActive(i) ==
    IF i > Len(POSITIONS) THEN i
    ELSE IF rosterSettings[POSITIONS[i]] # 0 THEN i
    ELSE NextActive(i + 1)

\* Step 3: the ids of every position named in rosterSettings
AllPlayerIds ==
    UNION {{rankings1[p][i] : i \in 1..Len(rankings1[p])} \cup
           {rankings2[p][i] : i \in 1..Len(rankings2[p])} : p \in DOMAIN rosterSettings}

\* Enter position number i with the shared assigned set `taken`, or, past the
\* last position, compute the totals and return
EnterPosition(i, taken, lineA, lineB) ==
    /\ posIdx' = i
    /\ assigned' = taken
    /\ lineupA' = lineA
    /\ lineupB' = lineB
    /\ filled' = 0
    /\ IF i > Len(POSITIONS)
       THEN /\ dpc' = "done"
            /\ poolA' = <<>>
            /\ poolB' = <<>>
            /\ totalA' = SumLive(lineA)
            /\ totalB' = SumLive(lineB)
            /\ success' = TRUE
       ELSE /\ dpc' = "loop"
            /\ poolA' = Pool(rankings1[POSITIONS[i]], taken)
            /\ poolB' = Pool(rankings2[POSITIONS[i]], taken)
            /\ UNCHANGED <<totalA, totalB, success>>

\* distributeMatchupLineups up to the first position: the fetches, the early
\* return when no ranked id exists, and the empty shared assigned set
DistributeStart ==
    /\ dpc = "idle"
    /\ UNCHANGED <<rankings1, rankings2, rosterSettings, players, currentWeek, burned>>
    /\ UNCHANGED <<wizardVars, contestVars, serviceVars>>
    /\ IF AllPlayerIds = {}
       THEN /\ dpc' = "done"
            /\ lineupA' = <<>>
            /\ lineupB' = <<>>
            /\ totalA' = 0
            /\ totalB' = 0
            /\ success' = TRUE
            /\ UNCHANGED <<assigned, posIdx, poolA, poolB, filled>>
       ELSE EnterPosition(NextActive(1), {}, <<>>, <<>>)

\* A fetch fails: the catch block returns empty lineups with success: false
DistributeError ==
    /\ dpc = "idle"
    /\ dpc' = "done"
    /\ lineupA' = <<>>
    /\ lineupB' = <<>>
    /\ totalA' = 0
    /\ totalB' = 0
    /\ success' = FALSE
    /\ UNCHANGED <<rankings1, rankings2, rosterSettings, players, currentWeek,
                   assigned, posIdx, poolA, poolB, filled, burned>>
    /\ UNCHANGED <<wizardVars, contestVars, serviceVars>>

\* A loop that runs while (filled <= slotCount)
SlotDoneOneMore(taken, restA, restB, lineA, lineB) ==
    IF filled + 1 <= rosterSettings[POSITIONS[posIdx]]
    THEN /\ filled' = filled + 1
         /\ assigned' = taken
         /\ poolA' = restA
         /\ poolB' = restB
         /\ lineupA' = lineA
         /\ lineupB' = lineB
         /\ UNCHANGED <<dpc, posIdx, totalA, totalB, success>>
    ELSE EnterPosition(NextActive(posIdx + 1), taken, lineA, lineB)

\* One slot of the position is done: loop again, or go to the next position
SlotDone(taken, restA, restB, lineA, lineB) ==
    IF filled + 1 < rosterSettings[POSITIONS[posIdx]]
    THEN /\ filled' = filled + 1
         /\ assigned' = taken
         /\ poolA' = restA
         /\ poolB' = restB
         /\ lineupA' = lineA
         /\ lineupB' = lineB
         /\ UNCHANGED <<dpc, posIdx, totalA, totalB, success>>
    ELSE EnterPosition(NextActive(posIdx + 1), taken, lineA, lineB)

\* poolA[0] || null, and playerMap[id] of it
TopPick(pool) == IF pool = <<>> THEN null ELSE pool[1]
TopPlayer(pool) == IF TopPick(pool) # null /\ HasPlayer(TopPick(pool)) THEN TopPick(pool) ELSE null

\* A branch 1 that pushes the empty slot on side A only
EmitEmptyForA ==
    /\ dpc = "loop"
    /\ filled < rosterSettings[POSITIONS[posIdx]]
    /\ TopPlayer(poolA) = null \/ TopPlayer(poolB) = null
    /\ SlotDone(assigned, poolA, poolB,
                Append(lineupA, EmptySlot(POSITIONS[posIdx])),
                lineupB)
    /\ UNCHANGED <<rankings1, rankings2, rosterSettings, players, currentWeek, burned>>
    /\ UNCHANGED <<wizardVars, contestVars, serviceVars>>

\* while (filled < slotCount), branch 1: a side has no player: empty slots
EmitEmpty ==
    /\ dpc = "loop"
    /\ filled < rosterSettings[POSITIONS[posIdx]]
    /\ TopPlayer(poolA) = null \/ TopPlayer(poolB) = null
    /\ SlotDone(assigned, poolA, poolB,
                Append(lineupA, EmptySlot(POSITIONS[posIdx])),
                Append(lineupB, EmptySlot(POSITIONS[posIdx])))
    /\ UNCHANGED <<rankings1, rankings2, rosterSettings, players, currentWeek, burned>>
    /\ UNCHANGED <<wizardVars, contestVars, serviceVars>>

\* A burn that leaves the player out of the shared assigned set
BurnUnassigned ==
    /\ dpc = "loop"
    /\ filled < rosterSettings[POSITIONS[posIdx]]
    /\ TopPlayer(poolA) # null /\ TopPlayer(poolB) # null
    /\ TopPlayer(poolA) = TopPlayer(poolB)
    /\ LET id == TopPlayer(poolA)
           NotIt(x) == x # id
       IN  /\ assigned' = assigned
           /\ poolA' = Filter(poolA, NotIt)
           /\ poolB' = Filter(poolB, NotIt)
           /\ burned' = burned \cup {id}
    /\ UNCHANGED <<dpc, posIdx, filled, lineupA, lineupB, totalA, totalB, success,
                   rankings1, rankings2, rosterSettings, players, currentWeek>>
    /\ UNCHANGED <<wizardVars, contestVars, serviceVars>>

\* branch 2: both sides' top player is the same one: burn it, fill nothing
Burn ==
    /\ dpc = "loop"
    /\ filled < rosterSettings[POSITIONS[posIdx]]
    /\ TopPlayer(poolA) # null /\ TopPlayer(poolB) # null
    /\ TopPlayer(poolA) = TopPlayer(poolB)
    /\ LET id == TopPlayer(poolA)
           NotIt(x) == x # id
       IN  /\ assigned' = assigned \cup {id}
           /\ poolA' = Filter(poolA, NotIt)
           /\ poolB' = Filter(poolB, NotIt)
           /\ burned' = burned \cup {id}
    /\ UNCHANGED <<dpc, posIdx, filled, lineupA, lineupB, totalA, totalB, success,
                   rankings1, rankings2, rosterSettings, players, currentWeek>>
    /\ UNCHANGED <<wizardVars, contestVars, serviceVars>>

\* A fill that leaves side A's pick in the pool of side B
FillKeepsPickOfA ==
    /\ dpc = "loop"
    /\ filled < rosterSettings[POSITIONS[posIdx]]
    /\ TopPlayer(poolA) # null /\ TopPlayer(poolB) # null
    /\ TopPlayer(poolA) # TopPlayer(poolB)
    /\ LET a == TopPlayer(poolA)
           b == TopPlayer(poolB)
           position == POSITIONS[posIdx]
           Neither(x) == x # a /\ x # b
           NotB(x) == x # b
           rankA == IndexOf(rankings1[position], a) + 1
           rankB == IndexOf(rankings2[position], b) + 1
       IN  SlotDone(assigned \cup {a, b},
                    Filter(poolA, Neither), Filter(poolB, NotB),
                    Append(lineupA, FilledSlot(position, a, rankA)),
                    Append(lineupB, FilledSlot(position, b, rankB)))
    /\ UNCHANGED <<rankings1, rankings2, rosterSettings, players, currentWeek, burned>>
    /\ UNCHANGED <<wizardVars, contestVars, serviceVars>>

\* A fill that takes each side's pick out of that side's own pool only
FillOwnPickOnly ==
    /\ dpc = "loop"
    /\ filled < rosterSettings[POSITIONS[posIdx]]
    /\ TopPlayer(poolA) # null /\ TopPlayer(poolB) # null
    /\ TopPlayer(poolA) # TopPlayer(poolB)
    /\ LET a == TopPlayer(poolA)
           b == TopPlayer(poolB)
           position == POSITIONS[posIdx]
           NotA(x) == x # a
           NotB(x) == x # b
           rankA == IndexOf(rankings1[position], a) + 1
           rankB == IndexOf(rankings2[position], b) + 1
       IN  SlotDone(assigned \cup {a, b},
                    Filter(poolA, NotA), Filter(poolB, NotB),
                    Append(lineupA, FilledSlot(position, a, rankA)),
                    Append(lineupB, FilledSlot(position, b, rankB)))
    /\ UNCHANGED <<rankings1, rankings2, rosterSettings, players, currentWeek, burned>>
    /\ UNCHANGED <<wizardVars, contestVars, serviceVars>>

\* branch 3: no conflict: each side gets its top player
Fill ==
    /\ dpc = "loop"
    /\ filled < rosterSettings[POSITIONS[posIdx]]
    /\ TopPlayer(poolA) # null /\ TopPlayer(poolB) # null
    /\ TopPlayer(poolA) # TopPlayer(poolB)
    /\ LET a == TopPlayer(poolA)
           b == TopPlayer(poolB)
           position == POSITIONS[posIdx]
           Neither(x) == x # a /\ x # b
           rankA == IndexOf(rankings1[position], a) + 1
           rankB == IndexOf(rankings2[position], b) + 1
       IN  SlotDone(assigned \cup {a, b},
                    Filter(poolA, Neither), Filter(poolB, Neither),
                    Append(lineupA, FilledSlot(position, a, rankA)),
                    Append(lineupB, FilledSlot(position, b, rankB)))
    /\ UNCHANGED <<rankings1, rankings2, rosterSettings, players, currentWeek, burned>>
    /\ UNCHANGED <<wizardVars, contestVars, serviceVars>>

\* distributePosition as a function of its arguments: the while loop from
\* the pools pA, pB, the assigned set taken and n slots done
RECURSIVE positionLoop(_, _, _, _, _, _, _, _, _)
positionLoop(user1Rankings, user2Rankings, position, pA, pB, taken, n, slotsA, slotsB) ==
    IF n >= rosterSettings[position]
    THEN [slotsA |-> slotsA, slotsB |-> slotsB, assigned |-> taken]
    ELSE LET a == TopPlayer(pA)
             b == TopPlayer(pB)
             NotA(x) == x # a
             Neither(x) == x # a /\ x # b
         IN  IF a = null \/ b = null
             THEN positionLoop(user1Rankings, user2Rankings, position, pA, pB, taken,
                               n + 1, Append(slotsA, EmptySlot(position)),
                               Append(slotsB, EmptySlot(position)))
             ELSE IF a = b
             THEN positionLoop(user1Rankings, user2Rankings, position,
                               Filter(pA, NotA), Filter(pB, NotA), taken \cup {a},
                               n, slotsA, slotsB)
             ELSE positionLoop(user1Rankings, user2Rankings, position,
                               Filter(pA, Neither), Filter(pB, Neither),
                               taken \cup {a, b}, n + 1,
                               Append(slotsA, FilledSlot(position, a,
                                                        IndexOf(user1Rankings, a) + 1)),
                               Append(slotsB, FilledSlot(position, b,
                                                        IndexOf(user2Rankings, b) + 1)))

distributePosition(user1Rankings, user2Rankings, taken, position) ==
    positionLoop(user1Rankings, user2Rankings, position,
                 Pool(user1Rankings, taken), Pool(user2Rankings, taken),
                 taken, 0, <<>>, <<>>)

\* POSITIONS.forEach from position number i on, for the position -> ranked
\* ids maps r1 and r2 of the first and the second user of the call
RECURSIVE positionsFrom(_, _, _, _, _, _)
positionsFrom(i, r1, r2, taken, lineA, lineB) ==
    IF i > Len(POSITIONS) THEN [lineupA |-> lineA, lineupB |-> lineB]
    ELSE IF rosterSettings[POSITIONS[i]] = 0
    THEN positionsFrom(i + 1, r1, r2, taken, lineA, lineB)
    ELSE LET d == distributePosition(r1[POSITIONS[i]], r2[POSITIONS[i]], taken,
                                     POSITIONS[i])
         IN  positionsFrom(i + 1, r1, r2, d.assigned,
                           lineA \o d.slotsA, lineB \o d.slotsB)

\* distributeMatchupLineups as a function of the two users' rankings, on the
\* roster settings, the players and the week of the state; no fetch fails
distributeMatchupLineups(r1, r2) ==
    IF AllPlayerIds = {}
    THEN [lineupA |-> <<>>, lineupB |-> <<>>, totalA |-> 0, totalB |-> 0,
          success |-> TRUE]
    ELSE LET lineups == positionsFrom(1, r1, r2, {}, <<>>, <<>>)
         IN  [lineupA |-> lineups.lineupA, lineupB |-> lineups.lineupB,
              totalA |-> SumLive(lineups.lineupA), totalB |-> SumLive(lineups.lineupB),
              success |-> TRUE]

(***************************************************************************)
(* screens/ChatScreen.js: MatchupScreen (lines 1117-1767)                  *)
(***************************************************************************)
Users == {1, 2}
Opponent(u) == 3 - u

DEFAULT_SETTINGS ==
    [p \in PositionSet |->
        CASE p \in {"RB", "WR"} -> 2
          [] p = "SUPERFLEX" -> 0
          [] OTHER -> 1]

\* user1_settings / user2_settings of a row that predates the columns: '{}'
EmptySettings == <<>>

\* The positions whose count the model's users edit
EditPositions == {"QB"}

\* m[pos] of a settings object: a number, or undefined (<<>>)
Lookup(m, pos) == IF pos \in DOMAIN m THEN Some(m[pos]) ELSE None
\* x ?? 0  and  x || 0  on such a value (counts are never negative)
OrZero(x) == IF x = None THEN 0 ELSE x[1]
\* { ...m, [pos]: n }
With(m, pos, n) == [q \in (DOMAIN m) \cup {pos} |-> IF q = pos THEN n ELSE m[q]]

\* The higher of two counts
MathMax(a, b) == IF a > b THEN a ELSE b

MathMin(a, b) == IF a < b THEN a ELSE b

\* getEffectiveSettings: per position the lower of the two counts
getEffectiveSettings(mySettings, opponentSettings) ==
    [pos \in PositionSet |->
        MathMin(OrZero(Lookup(mySettings, pos)), OrZero(Lookup(opponentSettings, pos)))]

\* useState initial values, and the polling effect not started
InitialSession ==
    [loading |-> TRUE, matchupId |-> null, amIUser1 |-> FALSE,
     status |-> "pending", user1Confirmed |-> FALSE, user2Confirmed |-> FALSE,
     mySettings |-> DEFAULT_SETTINGS, opponentSettings |-> DEFAULT_SETTINGS,
     totalA |-> 0, totalB |-> 0,
     distSettings |-> None,     \* history: rosterSettings of the last distribution
     distRender |-> None,       \* history: the two maps of the render that ran it
     fetched |-> None,          \* the select of a fetchOrCreateMatchup in flight
     poll |-> "off",            \* the polling effect: "off", "first", "interval"
     captured |-> None,         \* the render its closures were created in
     leaked |-> {},             \* the renders of intervals no cleanup will clear
     edit |-> None,             \* the updatePositionCount whose write is awaited
     reverted |-> FALSE]        \* history: the last updatePositionCount failed

\* The row fetchOrCreateMatchup inserts; the confirmation flags, the winner
\* and the scores take the column defaults
NewMatchup(u) ==
    [user1_id |-> u, user2_id |-> Opponent(u), status |-> "pending",
     user1_confirmed |-> FALSE, user2_confirmed |-> FALSE,
     user1_settings |-> DEFAULT_SETTINGS, user2_settings |-> DEFAULT_SETTINGS,
     winner_id |-> null, user1_score |-> None, user2_score |-> None]

\* A row created before user1_settings / user2_settings existed
LegacyMatchup ==
    [NewMatchup(1) EXCEPT !.user1_settings = EmptySettings,
                          !.user2_settings = EmptySettings]

\* The state of a render that the closures created in it read: the polling
\* effect keeps calling the finalizeMatchup and distributeLineups of the
\* render it was started in (lines 1188-1216, dependencies at line 1225)
Snapshot(s) ==
    [matchupId |-> s.matchupId, amIUser1 |-> s.amIUser1,
     mySettings |-> s.mySettings, opponentSettings |-> s.opponentSettings,
     totalA |-> s.totalA, totalB |-> s.totalB]

\* The polling effect after a handler took the screen from state before to
\* state after.  When loading or status changed, the cleanup runs and clears
\* the interval; while the first tick is awaited there is no interval yet
\* (line 1212 precedes line 1213), the cleanup clears nothing and the
\* interval is set when the tick returns.  Then the effect runs again.
pollEffect(before, after) ==
    IF before.loading = after.loading /\ before.status = after.status
    THEN after
    ELSE LET start == ~after.loading /\ after.status = "active"
         IN  [after EXCEPT
                !.leaked = IF before.poll = "first"
                           THEN before.leaked \cup {before.captured[1]}
                           ELSE before.leaked,
                !.poll = IF start THEN "first" ELSE "off",
                !.captured = IF start THEN Some(Snapshot(after)) ELSE None]

\* distributeLineups of user u's screen in state s, called from a render
\* that holds the settings of c: the effective settings go to
\* distributeMatchupLineups, the result's totals into totalA / totalB
distributeLineupsFrom(u, c, s, totals) ==
    [s EXCEPT !.distSettings = Some(getEffectiveSettings(c.mySettings, c.opponentSettings)),
              !.distRender = Some([mySettings |-> c.mySettings,
                                   opponentSettings |-> c.opponentSettings]),
              !.totalA = totals[u],
              !.totalB = totals[Opponent(u)]]

\* distributeLineups called by the auto-distribute effect of state s
distributeLineups(u, s) == distributeLineupsFrom(u, s, s, liveTotals)

\* .maybeSingle() on the rows of the pair: the id of the one row, null when
\* there is none (or, with an error that is ignored, more than one)
ExistingMatchup == IF Len(matchups) = 1 THEN 1 ELSE null

\* The screen is mounted.  The intervals that an earlier screen of the user
\* left running cannot reach the new one and are not followed any further
Mount == InitialSession

\* fetchOrCreateMatchup of user u from the answer of its select on (lines
\* 1241-1297), then the auto-distribute and the polling effect
finishLoad(u, m, existing) ==
    LET table == IF existing # null THEN matchups ELSE Append(matchups, NewMatchup(u))
        id == IF existing # null THEN existing ELSE Len(table)
        matchup == table[id]
        isUser1 == u = matchup.user1_id
        loaded ==
            [m EXCEPT
                !.fetched = None,
                !.loading = FALSE,
                !.matchupId = id,
                !.amIUser1 = isUser1,
                !.mySettings = IF isUser1 THEN matchup.user1_settings
                               ELSE matchup.user2_settings,
                !.opponentSettings = IF isUser1 THEN matchup.user2_settings
                                     ELSE matchup.user1_settings,
                !.status = matchup.status,
                !.user1Confirmed = matchup.user1_confirmed,
                !.user2Confirmed = matchup.user2_confirmed]
    IN  /\ Len(table) <= MaxRows
        /\ matchups' = table
        /\ session' = [session EXCEPT ![u] = distributeLineups(u, pollEffect(m, loaded))]
        /\ UNCHANGED liveTotals

\* fetchOrCreateMatchup of user u (on mount) with nothing happening between
\* its select and its insert
fetchOrCreateMatchup(u) ==
    /\ session[u].fetched = None
    /\ finishLoad(u, Mount, ExistingMatchup)

\* fetchOrCreateMatchup of user u up to the answer of the select (line 1239)
fetchExisting(u) ==
    /\ session[u].fetched = None
    /\ session' = [session EXCEPT ![u] =
          [Mount EXCEPT !.fetched = Some(ExistingMatchup)]]
    /\ UNCHANGED <<matchups, liveTotals>>

\* ... and from there on
createOrUse(u) ==
    /\ session[u].fetched # None
    /\ finishLoad(u, session[u], session[u].fetched[1])

\* supabase.from('matchups').update(payload).eq('id', id): payload is a
\* function from column names to values
UpdateRow(id, payload) ==
    [i \in 1..Len(matchups) |->
        IF i = id
        THEN [c \in DOMAIN matchups[i] |->
                IF c \in DOMAIN payload THEN payload[c] ELSE matchups[i][c]]
        ELSE matchups[i]]

\* A payload that names the columns of the other side
UpdatePayloadOtherSide(s, newSettings) ==
    LET own == IF s.amIUser1
               THEN [user2_settings |-> newSettings, user2_confirmed |-> FALSE]
               ELSE [user1_settings |-> newSettings, user1_confirmed |-> FALSE]
    IN  IF s.status = "active"
        THEN [c \in (DOMAIN own) \cup {"status"} |->
                 IF c = "status" THEN "pending" ELSE own[c]]
        ELSE own

\* The payload of updatePositionCount, lines 1310-1317
UpdatePayload(s, newSettings) ==
    LET own == IF s.amIUser1
               THEN [user1_settings |-> newSettings, user1_confirmed |-> FALSE]
               ELSE [user2_settings |-> newSettings, user2_confirmed |-> FALSE]
    IN  IF s.status = "active"
        THEN [c \in (DOMAIN own) \cup {"status"} |->
                 IF c = "status" THEN "pending" ELSE own[c]]
        ELSE own

\* updatePositionCount(position, increment) of user u; ok: the write succeeds
updatePositionCount(u, position, increment, ok) ==
    LET s == session[u]
        currentCount == OrZero(Lookup(s.mySettings, position))
        newCount == currentCount + increment
        newSettings == With(s.mySettings, position, newCount)
    IN  /\ ~s.loading
        /\ s.matchupId # null
        /\ newCount >= 0
        /\ newCount <= MaxCount
        /\ IF ok
           THEN /\ matchups' = UpdateRow(s.matchupId, UpdatePayload(s, newSettings))
                /\ session' = [session EXCEPT ![u] =
                      distributeLineups(u, pollEffect(s,
                        [s EXCEPT !.mySettings = newSettings,
                                  !.status = "pending",
                                  !.user1Confirmed = IF s.amIUser1 THEN FALSE ELSE @,
                                  !.user2Confirmed = IF s.amIUser1 THEN @ ELSE FALSE]))]
           ELSE \* setMySettings(mySettings): the optimistic change is reverted
                /\ matchups' = matchups
                /\ session' = [session EXCEPT ![u] = distributeLineups(u, s)]
        /\ UNCHANGED liveTotals

\* A failure branch that leaves the optimistic settings in place
KeepOptimistic(before, optimistic) == optimistic

\* setMySettings(mySettings) of the failure branch (line 1326): mySettings is
\* the map of the render in which the button was pressed
RevertedSettings(before, optimistic) == before

\* updatePositionCount(position, increment) of user u up to its await (lines
\* 1301-1321): the optimistic setMySettings, and the payload built from the
\* render in which the button was pressed.  The screen shows the new count
\* and re-distributes while the write is under way.
pressPositionCount(u, position, increment) ==
    LET s == session[u]
        currentCount == OrZero(Lookup(s.mySettings, position))
        newCount == currentCount + increment
        newSettings == With(s.mySettings, position, newCount)
    IN  /\ ~s.loading
        /\ s.matchupId # null
        /\ s.edit = None
        /\ newCount >= 0
        /\ newCount <= MaxCount
        /\ session' = [session EXCEPT ![u] =
              distributeLineups(u,
                [s EXCEPT !.mySettings = newSettings,
                          !.reverted = FALSE,
                          !.edit = Some([mySettings |-> s.mySettings,
                                         newSettings |-> newSettings,
                                         payload |-> UpdatePayload(s, newSettings)])])]
        /\ UNCHANGED <<matchups, liveTotals>>

\* ... and from the answer of the write on (lines 1324-1331)
settlePositionCount(u, ok) ==
    LET s == session[u]
    IN  /\ s.edit # None
        /\ IF ok
           THEN /\ matchups' = UpdateRow(s.matchupId, s.edit[1].payload)
                /\ session' = [session EXCEPT ![u] = pollEffect(s,
                      [s EXCEPT !.edit = None,
                                !.status = "pending",
                                !.user1Confirmed = IF s.amIUser1 THEN FALSE ELSE @,
                                !.user2Confirmed = IF s.amIUser1 THEN @ ELSE FALSE])]
           ELSE /\ matchups' = matchups
                /\ session' = [session EXCEPT ![u] =
                      distributeLineups(u,
                        [s EXCEPT !.edit = None,
                                  !.reverted = TRUE,
                                  !.mySettings = RevertedSettings(s.edit[1].mySettings,
                                                                  s.mySettings)])]
        /\ UNCHANGED liveTotals

\* The payload of confirmMatchup, lines 1340-1349
ConfirmPayload(s) ==
    LET opponentConfirmed == IF s.amIUser1 THEN s.user2Confirmed ELSE s.user1Confirmed
        own == IF s.amIUser1 THEN [user1_confirmed |-> TRUE]
               ELSE [user2_confirmed |-> TRUE]
    IN  IF opponentConfirmed
        THEN [c \in (DOMAIN own) \cup {"status"} |->
                 IF c = "status" THEN "active" ELSE own[c]]
        ELSE own

\* The button is rendered only while shouldShowConfirm (line 1567)
shouldShowConfirm(s) ==
    /\ s.status = "pending"
    /\ \/ s.amIUser1 /\ ~s.user1Confirmed
       \/ ~s.amIUser1 /\ ~s.user2Confirmed

\* confirmMatchup of user u; ok: the write succeeds
confirmMatchup(u, ok) ==
    LET s == session[u]
        opponentConfirmed == IF s.amIUser1 THEN s.user2Confirmed ELSE s.user1Confirmed
    IN  /\ ~s.loading
        /\ shouldShowConfirm(s)
        /\ s.matchupId # null
        /\ IF ok
           THEN /\ matchups' = UpdateRow(s.matchupId, ConfirmPayload(s))
                /\ session' = [session EXCEPT ![u] = pollEffect(s,
                      [s EXCEPT !.user1Confirmed = IF s.amIUser1 THEN TRUE ELSE @,
                                !.user2Confirmed = IF s.amIUser1 THEN @ ELSE TRUE,
                                !.status = IF opponentConfirmed THEN "active" ELSE @])]
           ELSE UNCHANGED <<matchups, session>>
        /\ UNCHANGED liveTotals

\* A winner chosen by >= : the viewing user wins a tie
WinnerOnTie(u, c) ==
    IF c.totalA >= c.totalB THEN u ELSE Opponent(u)

\* winnerId of finalizeMatchup, lines 1372-1374: currentUserId is the viewing
\* user u, opponentId the friend
Winner(u, c) ==
    IF c.totalA > c.totalB THEN u
    ELSE IF c.totalB > c.totalA THEN Opponent(u)
    ELSE null

\* A payload whose scores are the viewing user's and the friend's, in that
\* order, whoever is user1 of the row
FinalPayloadOwnFirst(u, c) ==
    [status |-> "final", winner_id |-> Winner(u, c),
     user1_score |-> Some(c.totalA),
     user2_score |-> Some(c.totalB)]

\* The payload of finalizeMatchup, lines 1377-1387
FinalPayload(u, c) ==
    [status |-> "final", winner_id |-> Winner(u, c),
     user1_score |-> Some(IF c.amIUser1 THEN c.totalA ELSE c.totalB),
     user2_score |-> Some(IF c.amIUser1 THEN c.totalB ELSE c.totalA)]

\* finalizeMatchup of the render c of user u's screen s, called by a tick of
\* the poller that render started (so its status is active and it has a
\* matchupId, line 1218): the table and the screen afterwards.  ok: the
\* write succeeds
finalizeMatchup(u, c, s, ok) ==
    IF ok
    THEN [matchups |-> UpdateRow(c.matchupId, FinalPayload(u, c)),
          s |-> pollEffect(s, [s EXCEPT !.status = "final"]),
          liveTotals |-> liveTotals]
    ELSE [matchups |-> matchups, s |-> s, liveTotals |-> liveTotals]

\* A tick that calls distributeLineups whatever refreshLiveScores returned
checkAndRefreshScoresAnyResult(u, c, s, allFinal, shouldPoll, ok, newTotals) ==
    IF allFinal
    THEN finalizeMatchup(u, c, s, ok)
    ELSE IF shouldPoll
    THEN [matchups |-> matchups,
          s |-> distributeLineupsFrom(u, c, s, newTotals),
          liveTotals |-> newTotals]
    ELSE [matchups |-> matchups, s |-> s, liveTotals |-> liveTotals]

\* One tick (checkAndRefreshScores, lines 1188-1209) of a poller of user u's
\* screen s whose closures are those of render c: the table, the screen and
\* the live totals afterwards.  allFinal and shouldPoll are areAllGamesFinal
\* and shouldPollScores of the games fetched; ok: the write of
\* finalizeMatchup, or refreshLiveScores, succeeds; newTotals: the live
\* totals of the two lineups after the refresh.  A refreshLiveScores that
\* fails may have written the batches before the failing one.
checkAndRefreshScores(u, c, s, allFinal, shouldPoll, ok, newTotals) ==
    IF allFinal
    THEN finalizeMatchup(u, c, s, ok)
    ELSE IF shouldPoll /\ ok
    THEN [matchups |-> matchups,
          s |-> distributeLineupsFrom(u, c, s, newTotals),
          liveTotals |-> newTotals]
    ELSE IF shouldPoll
    THEN [matchups |-> matchups, s |-> s, liveTotals |-> newTotals]
    ELSE [matchups |-> matchups, s |-> s, liveTotals |-> liveTotals]

\* The live totals a tick can find after its refresh, complete or cut short
\* by a failing batch: the players' points of the week only accumulate
RefreshedTotals(allFinal, shouldPoll, ok) ==
    IF ~allFinal /\ shouldPoll
    THEN {t \in [Users -> 0..MaxTotal] : \A u \in Users : t[u] >= liveTotals[u]}
    ELSE {liveTotals}

\* startPolling, lines 1212-1215: the first tick has returned and the
\* interval is set; a cleanup that ran meanwhile has found no interval
Armed(s) == IF s.poll = "first" THEN [s EXCEPT !.poll = "interval"] ELSE s

\* A tick of the poller that the polling effect of user u's screen started:
\* the first one, or one of the interval
pollerTick(u, allFinal, shouldPoll, ok, newTotals) ==
    /\ session[u].poll # "off"
    /\ \E r \in {checkAndRefreshScores(u, session[u].captured[1], session[u],
                                       allFinal, shouldPoll, ok, newTotals)} :
          /\ matchups' = r.matchups
          /\ session' = [session EXCEPT ![u] = Armed(r.s)]
          /\ liveTotals' = r.liveTotals

\* A tick of an interval of user u that was set after its cleanup had run
leakedTick(u, c, allFinal, shouldPoll, ok, newTotals) ==
    /\ c \in session[u].leaked
    /\ \E r \in {checkAndRefreshScores(u, c, session[u],
                                       allFinal, shouldPoll, ok, newTotals)} :
          /\ matchups' = r.matchups
          /\ session' = [session EXCEPT ![u] = r.s]
          /\ liveTotals' = r.liveTotals

(***************************************************************************)
(* services/liveScoring.js (held in src/services/supabase.js)              *)
(***************************************************************************)
\* Times are counted in hours: 2 * 60 * 60 * 1000 ms and 4 * 60 * 60 * 1000 ms
PollLeadHours == 2
PollTailHours == 4

\* games.map(g => new Date(g.start_time).getTime())
gameTimes(gs) == [i \in 1..Len(gs) |-> gs[i].start_time]
\* Math.min(...arr) and Math.max(...arr) of a non-empty array
MinOf(arr) == CHOOSE x \in {arr[i] : i \in 1..Len(arr)} : \A i \in 1..Len(arr) : x <= arr[i]
MaxOf(arr) == CHOOSE x \in {arr[i] : i \in 1..Len(arr)} : \A i \in 1..Len(arr) : x >= arr[i]

\* A shouldPollScores whose window excludes its two ends
shouldPollScoresOpenWindow(gs, t) ==
    IF Len(gs) = 0 THEN FALSE
    ELSE LET firstGame == MinOf(gameTimes(gs))
             lastGame == MaxOf(gameTimes(gs))
             pollStart == firstGame - PollLeadHours
             pollEnd == lastGame + PollTailHours
         IN  t > pollStart /\ t < pollEnd

\* shouldPollScores(games) when Date.now() returns t
shouldPollScores(gs, t) ==
    IF Len(gs) = 0 THEN FALSE
    ELSE LET firstGame == MinOf(gameTimes(gs))
             lastGame == MaxOf(gameTimes(gs))
             pollStart == firstGame - PollLeadHours
             pollEnd == lastGame + PollTailHours
         IN  t >= pollStart /\ t <= pollEnd

\* g.status === 'complete' || g.status === 'closed'
IsFinalStatus(g) == g.status = "complete" \/ g.status = "closed"

\* An areAllGamesFinal without the test for an empty list
areAllGamesFinalNoEmptyTest(gs) == \A i \in 1..Len(gs) : IsFinalStatus(gs[i])

\* areAllGamesFinal(games)
areAllGamesFinal(gs) ==
    IF Len(gs) = 0 THEN FALSE
    ELSE \A i \in 1..Len(gs) : IsFinalStatus(gs[i])

\* The two calls of a poller tick (ChatScreen.js 1194 and 1200)
callAreAllGamesFinal ==
    /\ finalDecision = None
    /\ finalDecision' = Some(areAllGamesFinal(games))
    /\ UNCHANGED <<games, now, pollDecision>>
callShouldPollScores ==
    /\ pollDecision = None
    /\ pollDecision' = Some(shouldPollScores(games, now))
    /\ UNCHANGED <<games, now, finalDecision>>

\* Object.keys(liveStats): integer-like keys come in ascending order
ObjectKeys(ids) ==
    [k \in 1..Cardinality(ids) |->
        CHOOSE id \in ids : Cardinality({j \in ids : j < id}) = k - 1]
\* The updates array of updateCurrentWeekStats, by player id
updates == ObjectKeys(liveStats)

\* updates.slice(i, i + BATCH_SIZE)
Batch(i) ==
    SubSeq(updates, i + 1, IF i + BATCH_SIZE < Len(updates) THEN i + BATCH_SIZE
                           ELSE Len(updates))

\* One iteration of the loop of updateCurrentWeekStats; ok: the upsert
\* succeeds.  The error is thrown to the catch of the function, which returns
upsertBatch(ok) ==
    /\ syncPc = "loop"
    /\ batchStart < Len(updates)
    /\ IF ok
       THEN /\ statsTable' = [id \in DOMAIN statsTable |->
                                IF \E k \in 1..Len(Batch(batchStart)) :
                                      Batch(batchStart)[k] = id
                                THEN week ELSE statsTable[id]]
            /\ totalUpdated' = totalUpdated + Len(Batch(batchStart))
            /\ batchStart' = batchStart + BATCH_SIZE
            /\ UNCHANGED <<syncPc, syncResult>>
       ELSE /\ syncPc' = "done"
            /\ syncResult' = Some([success |-> FALSE, count |-> None])
            /\ UNCHANGED <<statsTable, totalUpdated, batchStart>>
    /\ UNCHANGED <<liveStats, week>>

\* The two returns of the try block: of an empty liveStats, and after the
\* loop
returnCount ==
    /\ syncPc = "loop"
    /\ batchStart >= Len(updates)
    /\ syncPc' = "done"
    /\ syncResult' = Some([success |-> TRUE,
                           count |-> Some(IF Len(updates) = 0 THEN 0 ELSE totalUpdated)])
    /\ UNCHANGED <<liveStats, week, batchStart, totalUpdated, statsTable>>

(***************************************************************************)
(* Initial states and specifications                                       *)
(***************************************************************************)
WizardIdle ==
    /\ rankings = <<>>
    /\ isPromoting = FALSE
    /\ promotedPlayerId = null
    /\ currentPromotionIndex = None
    /\ originalComparisonIds = [playerAId |-> null, playerBId |-> null]
    /\ rankingRow = NoRow
    /\ promotionSteps = 0
    /\ storeFailures = 0

DistIdle ==
    /\ dpc = "idle"
    /\ rankings1 = [p \in PositionSet |-> <<>>]
    /\ rankings2 = [p \in PositionSet |-> <<>>]
    /\ rosterSettings = [p \in PositionSet |-> 0]
    /\ players = <<>>
    /\ currentWeek = 2
    /\ assigned = {}
    /\ posIdx = 1
    /\ poolA = <<>>
    /\ poolB = <<>>
    /\ filled = 0
    /\ lineupA = <<>>
    /\ lineupB = <<>>
    /\ totalA = 0
    /\ totalB = 0
    /\ success = FALSE
    /\ burned = {}

ContestIdle ==
    /\ matchups = <<>>
    /\ session = [u \in Users |-> InitialSession]
    /\ liveTotals = [u \in Users |-> 0]

ScoringIdle ==
    /\ games = <<>>
    /\ now = 0
    /\ pollDecision = None
    /\ finalDecision = None

SyncIdle ==
    /\ liveStats = {}
    /\ week = 1
    /\ syncPc = "idle"
    /\ batchStart = 0
    /\ totalUpdated = 0
    /\ statsTable = [id \in 1..MaxStatIds |-> 0]
    /\ syncResult = None

CallIdle ==
    /\ resolved = None
    /\ nextPair = None

ServiceIdle == ScoringIdle /\ SyncIdle /\ CallIdle

\* ---- the ranking wizard
WizardNext == Select \/ Promote \/ Reset
InitWizard == WizardInit /\ DistIdle /\ ContestIdle /\ ServiceIdle
SpecWizard == InitWizard /\ [][WizardNext]_vars

\* The user keeps answering and never resets
AnswerNext == Select \/ Promote
SpecWizardFair == InitWizard /\ [][AnswerNext]_vars /\ WF_vars(AnswerNext)

\* ---- one distribution run over bounded inputs
Entities == 1..NumEntities
RankedLists ==
    {l \in UNION {[1..n -> Entities] : n \in 0..MaxListLen} :
        \A i, j \in 1..Len(l) : i # j => l[i] # l[j]}
\* The positions that have ranked lists and slots in the model's inputs
RankedPositions == {"RB", "FLEX"}
\* A run does not depend on which player has which id: the inputs name the
\* players 1, 2, ... in the order in which the ranked lists first mention them
FirstSeenInOrder(ids) ==
    \A i \in 1..Len(ids) : \A k \in 1..(ids[i] - 1) : \E j \in 1..(i - 1) : ids[j] = k

PlayerRow(id, stale) ==
    [id |-> id,
     stats_week |-> IF stale THEN currentWeek - 1 ELSE currentWeek,
     current_week_stats |-> id,
     projections |-> id + NumEntities]

\* The two users' ranked lists of the ranked positions
RankedInputs ==
    {r \in [RankedPositions -> RankedLists] \X [RankedPositions -> RankedLists] :
        FirstSeenInOrder(r[1]["RB"] \o r[2]["RB"] \o r[1]["FLEX"] \o r[2]["FLEX"])}

DistInit ==
    /\ dpc = "idle"
    /\ \E r \in RankedInputs :
          /\ rankings1 = [p \in PositionSet |-> IF p \in RankedPositions THEN r[1][p] ELSE <<>>]
          /\ rankings2 = [p \in PositionSet |-> IF p \in RankedPositions THEN r[2][p] ELSE <<>>]
    /\ \E counts \in [RankedPositions -> 0..MaxSlots] :
          rosterSettings = [p \in PositionSet |-> IF p \in RankedPositions THEN counts[p] ELSE 0]
    /\ currentWeek = 2
    \* nfl_players is asked for the ranked ids only; some have no row or stale stats
    /\ \E degraded \in {d \in (SUBSET AllPlayerIds) \X (SUBSET AllPlayerIds) :
                            /\ d[1] \cap d[2] = {}
                            /\ Cardinality(d[1] \cup d[2]) <= MaxDegraded} :
          players = [id \in AllPlayerIds \ degraded[1] |-> PlayerRow(id, id \in degraded[2])]
    /\ assigned = {}
    /\ posIdx = 1
    /\ poolA = <<>>
    /\ poolB = <<>>
    /\ filled = 0
    /\ lineupA = <<>>
    /\ lineupB = <<>>
    /\ totalA = 0
    /\ totalB = 0
    /\ success = FALSE
    /\ burned = {}

DistNext == DistributeStart \/ DistributeError \/ EmitEmpty \/ Burn \/ Fill
InitDist == DistInit /\ WizardIdle /\ ContestIdle /\ ServiceIdle
SpecDist == InitDist /\ [][DistNext]_vars

\* ---- the matchup of two users while the games of the week are played
ContestInit ==
    /\ matchups \in {<<>>, <<LegacyMatchup>>}
    /\ session = [u \in Users |-> InitialSession]
    /\ liveTotals \in [Users -> 0..MaxTotal]

\* The intervals that the model follows at one time do not exceed MaxLeaked
LeakBound == \A u \in Users : Cardinality(session'[u].leaked) <= MaxLeaked

\* The user's taps come after the first tick of a poller just started has
\* returned
Load ==
    /\ \E u \in Users : session[u].poll # "first" /\ fetchOrCreateMatchup(u)
    /\ LeakBound
    /\ UNCHANGED <<wizardVars, distVars, serviceVars>>
Edit ==
    /\ \E u \in Users : \E position \in EditPositions : \E increment \in {-1, 1} :
          \E ok \in BOOLEAN :
             session[u].poll # "first" /\ updatePositionCount(u, position, increment, ok)
    /\ LeakBound
    /\ UNCHANGED <<wizardVars, distVars, serviceVars>>
Confirm ==
    /\ \E u \in Users : \E ok \in BOOLEAN : confirmMatchup(u, ok)
    /\ LeakBound
    /\ UNCHANGED <<wizardVars, distVars, serviceVars>>
\* A tick that finds a game of the week not final
Tick ==
    /\ \E u \in Users : \E shouldPoll, ok \in BOOLEAN :
          \E newTotals \in RefreshedTotals(FALSE, shouldPoll, ok) :
             pollerTick(u, FALSE, shouldPoll, ok, newTotals)
    /\ LeakBound
    /\ UNCHANGED <<wizardVars, distVars, serviceVars>>

ContestNext == Load \/ Edit \/ Confirm \/ Tick
InitContest == ContestInit /\ WizardIdle /\ DistIdle /\ ServiceIdle
SpecContest == InitContest /\ [][ContestNext]_vars

\* ---- the matchup of two users up to and after the end of the week's games
\* A tick that finds every game of the week final
FinalTick ==
    /\ \E u \in Users : \E shouldPoll, ok \in BOOLEAN :
          pollerTick(u, TRUE, shouldPoll, ok, liveTotals)
    /\ LeakBound
    /\ UNCHANGED <<wizardVars, distVars, serviceVars>>
LeakedTick ==
    /\ \E u \in Users : \E c \in session[u].leaked :
          \E allFinal, shouldPoll, ok \in BOOLEAN :
             \E newTotals \in RefreshedTotals(allFinal, shouldPoll, ok) :
                leakedTick(u, c, allFinal, shouldPoll, ok, newTotals)
    /\ LeakBound
    /\ UNCHANGED <<wizardVars, distVars, serviceVars>>
\* An edit on a screen that shows the matchup as live
LiveEdit ==
    /\ \E u \in Users : \E position \in EditPositions : \E increment \in {-1, 1} :
          \E ok \in BOOLEAN :
             /\ session[u].poll # "first"
             /\ session[u].status = "active"
             /\ updatePositionCount(u, position, increment, ok)
    /\ LeakBound
    /\ UNCHANGED <<wizardVars, distVars, serviceVars>>

\* The table is empty and no game of the week has started
PollerInit ==
    /\ matchups = <<>>
    /\ session = [u \in Users |-> InitialSession]
    /\ liveTotals = [u \in Users |-> 0]

PollerNext == Load \/ Confirm \/ LiveEdit \/ Tick \/ FinalTick \/ LeakedTick
InitPoller == PollerInit /\ WizardIdle /\ DistIdle /\ ServiceIdle
SpecPoller == InitPoller /\ [][PollerNext]_vars

\* ---- the pollers of two users who leave the settings as they are
TickNext == Load \/ Confirm \/ Tick \/ FinalTick \/ LeakedTick
SpecTick == InitPoller /\ [][TickNext]_vars

\* ---- the same pollers when the matchup is first opened during the games
\* The table is empty and the players of the lineups have scored already
MidweekInit ==
    /\ matchups = <<>>
    /\ session = [u \in Users |-> InitialSession]
    /\ liveTotals \in [Users -> 0..MaxTotal]

InitMidweek == MidweekInit /\ WizardIdle /\ DistIdle /\ ServiceIdle
SpecMidweek == InitMidweek /\ [][TickNext]_vars

\* ---- the first accesses of the two users, select and insert apart
FetchExisting ==
    /\ \E u \in Users : session[u].poll # "first" /\ fetchExisting(u)
    /\ LeakBound
    /\ UNCHANGED <<wizardVars, distVars, serviceVars>>
CreateOrUse ==
    /\ \E u \in Users : createOrUse(u)
    /\ LeakBound
    /\ UNCHANGED <<wizardVars, distVars, serviceVars>>

CreateInit ==
    /\ matchups = <<>>
    /\ session = [u \in Users |-> InitialSession]
    /\ liveTotals = [u \in Users |-> 0]

CreateNext == FetchExisting \/ CreateOrUse \/ Confirm
InitCreate == CreateInit /\ WizardIdle /\ DistIdle /\ ServiceIdle
SpecCreate == InitCreate /\ [][CreateNext]_vars

\* ---- the functions of services/wizard.js on the rankings a session can
\* hold: the players in rank order, rank = place, compared or not
Orders(n) == {f \in [1..n -> 1..n] : \A i, j \in 1..n : f[i] = f[j] => i = j}
RankingInputs ==
    UNION {{[i \in 1..n |-> [id |-> f[i], rank |-> i, isCompared |-> c[i]]] :
               f \in Orders(n), c \in [1..n -> BOOLEAN]} : n \in 0..MaxPlayers}

CallInit ==
    /\ rankings \in RankingInputs
    /\ isPromoting = FALSE
    /\ promotedPlayerId = null
    /\ currentPromotionIndex = None
    /\ originalComparisonIds = [playerAId |-> null, playerBId |-> null]
    /\ rankingRow = NoRow
    /\ promotionSteps = 0
    /\ storeFailures = 0
    /\ resolved = None
    /\ nextPair = None

CallProcessSelection ==
    /\ \E winnerId, loserId \in 1..(MaxPlayers + 1) :
          callProcessSelection(winnerId, loserId)
    /\ UNCHANGED <<wizardVars, distVars, contestVars, scoringVars, syncVars>>
CallFindNextComparison ==
    /\ callFindNextComparison
    /\ UNCHANGED <<wizardVars, distVars, contestVars, scoringVars, syncVars>>

CallNext == CallProcessSelection \/ CallFindNextComparison
InitCall == CallInit /\ DistIdle /\ ContestIdle /\ ScoringIdle /\ SyncIdle
SpecCall == InitCall /\ [][CallNext]_vars

\* ---- sessions of the wizard that the user leaves and comes back to
Resume ==
    /\ \E ok \in BOOLEAN : resume(ok)
    /\ UNCHANGED <<distVars, contestVars, serviceVars>>

ResumeNext == Select \/ Promote \/ Reset \/ Resume
SpecResume == InitWizard /\ [][ResumeNext]_vars

\* ---- a session of the wizard, from any order of the players, with a user
\* whose choices follow one order of preference: of two players the one
\* with the lower id
Prefers(a, b) == IF a < b THEN a ELSE b

SortInit ==
    /\ rankings \in {r \in RankingInputs : \A i \in 1..Len(r) : ~r[i].isCompared}
    /\ isPromoting = FALSE
    /\ promotedPlayerId = null
    /\ currentPromotionIndex = None
    /\ originalComparisonIds = [playerAId |-> null, playerBId |-> null]
    /\ rankingRow = NoRow
    /\ promotionSteps = 0
    /\ storeFailures = 0

\* The user taps the preferred card of the pair on the screen
SortSelect ==
    /\ findNextComparison(rankings) # <<>>
    /\ handleSelection(Prefers(findNextComparison(rankings)[1].id,
                               findNextComparison(rankings)[2].id))
    /\ UNCHANGED <<distVars, contestVars, serviceVars>>
\* The user taps the preferred card of the duel on the screen
SortPromote ==
    /\ isPromoting
    /\ currentPromotionIndex # None
    /\ currentPromotionIndex[1] \in 1..Len(rankings)
    /\ handlePromotion(Prefers(promotedPlayerId,
                               rankings[currentPromotionIndex[1]].id))
    /\ UNCHANGED <<distVars, contestVars, serviceVars>>

SortNext == SortSelect \/ SortPromote \/ Reset
InitSort == SortInit /\ DistIdle /\ ContestIdle /\ ServiceIdle
SpecSort == InitSort /\ [][SortNext]_vars

\* ---- the decision functions of a poller tick on one schedule and time
GameStatuses == {"pre_game", "in_progress", "complete", "closed"}
GameLists ==
    UNION {[1..n -> [start_time : PollLeadHours..MaxKickoff, status : GameStatuses]] :
              n \in 0..MaxGames}

ScoringInit ==
    /\ games \in GameLists
    /\ now \in 0..(MaxKickoff + PollTailHours + 1)
    /\ pollDecision = None
    /\ finalDecision = None

CallAreAllGamesFinal ==
    /\ callAreAllGamesFinal
    /\ UNCHANGED <<wizardVars, distVars, contestVars, syncVars, callVars>>
CallShouldPollScores ==
    /\ callShouldPollScores
    /\ UNCHANGED <<wizardVars, distVars, contestVars, syncVars, callVars>>

ScoringNext == CallAreAllGamesFinal \/ CallShouldPollScores
InitScoring == ScoringInit /\ WizardIdle /\ DistIdle /\ ContestIdle /\ SyncIdle /\ CallIdle
SpecScoring == InitScoring /\ [][ScoringNext]_vars

\* ---- one run of updateCurrentWeekStats
SyncInit ==
    /\ liveStats \in SUBSET (1..MaxStatIds)
    /\ week \in 1..MaxWeek
    /\ syncPc = "loop"
    /\ batchStart = 0
    /\ totalUpdated = 0
    /\ statsTable = [id \in 1..MaxStatIds |-> 0]
    /\ syncResult = None

UpsertBatch ==
    /\ \E ok \in BOOLEAN : upsertBatch(ok)
    /\ UNCHANGED <<wizardVars, distVars, contestVars, scoringVars, callVars>>
ReturnCount ==
    /\ returnCount
    /\ UNCHANGED <<wizardVars, distVars, contestVars, scoringVars, callVars>>

SyncNext == UpsertBatch \/ ReturnCount
InitSync == SyncInit /\ WizardIdle /\ DistIdle /\ ContestIdle /\ ScoringIdle /\ CallIdle
SpecSync == InitSync /\ [][SyncNext]_vars

\* ---- the settings editor, the press of a button and the answer of its
\* write apart
EditPress ==
    /\ \E u \in Users : \E position \in EditPositions : \E increment \in {-1, 1} :
          session[u].poll # "first" /\ pressPositionCount(u, position, increment)
    /\ LeakBound
    /\ UNCHANGED <<wizardVars, distVars, serviceVars>>
EditSettle ==
    /\ \E u \in Users : \E ok \in BOOLEAN : settlePositionCount(u, ok)
    /\ LeakBound
    /\ UNCHANGED <<wizardVars, distVars, serviceVars>>

EditorInit ==
    /\ matchups \in {<<>>, <<LegacyMatchup>>}
    /\ session = [u \in Users |-> InitialSession]
    /\ liveTotals = [u \in Users |-> 0]

EditorNext == Load \/ Confirm \/ EditPress \/ EditSettle
InitEditor == EditorInit /\ WizardIdle /\ DistIdle /\ ServiceIdle
SpecEditor == InitEditor /\ [][EditorNext]_vars

(***************************************************************************)
(* Properties of the ranking wizard                                        *)
(***************************************************************************)
Ranks(rs) == {rs[i].rank : i \in 1..Len(rs)}

\* C1: whatever selections, promotion duels and resets were made, the ranks
\* of the N entries are exactly 1..N, no two entries share a rank, and every
\* entry's rank is its 1-based position in the list.
C1_RanksArePositions ==
    /\ Ranks(rankings) = 1..Len(rankings)
    /\ \A i, j \in 1..Len(rankings) : i # j => rankings[i].rank # rankings[j].rank
    /\ \A i \in 1..Len(rankings) : rankings[i].rank = i

\* The third entry was promoted to the top of a list of at least three, and
\* a reset then cleared its compared flag
C1_Witness ==
    /\ Len(rankings) >= 3
    /\ rankings[1].id = 3
    /\ ~rankings[1].isCompared
    /\ ~isPromoting

\* The wizard is done: not in a promotion cycle and no pair left to compare
WizardComplete == ~isPromoting /\ findNextComparison(rankings) = <<>>

\* C2: with two or more entries, answering every pair and every promotion
\* duel the wizard offers eventually leaves no pair to compare, and whenever
\* no pair is left every entry is compared.
C2_ComparisonsTerminate ==
    /\ (Len(rankings) >= 2) ~> WizardComplete
    /\ [](Len(rankings) >= 2 /\ findNextComparison(rankings) = <<>>
            => AllCompared(rankings))

\* A complete session over MaxPlayers entries in which the last entry ended
\* at the top
C2_Witness ==
    /\ Len(rankings) = MaxPlayers
    /\ WizardComplete
    /\ AllCompared(rankings)
    /\ rankings[1].id = MaxPlayers

\* C3: a promotion cycle takes at most N handlePromotion steps: a duel the
\* promoted entry wins below the top lowers the cycle index by one, leaves
\* the entries as they are and continues the cycle; a loss, or a win at the
\* top, ends the cycle in that step.
C3_PromotionCycleBounded ==
    [][/\ promotionSteps' <= Len(rankings')
       /\ \A id \in PlayerIds :
             handlePromotion(id) =>
                IF id = promotedPlayerId /\ currentPromotionIndex[1] > 1
                THEN /\ isPromoting'
                     /\ currentPromotionIndex' = Some(currentPromotionIndex[1] - 1)
                     /\ rankings' = rankings
                ELSE ~isPromoting']_vars

\* The promoted entry has won one duel below the top and the cycle goes on
C3_Witness ==
    /\ isPromoting
    /\ promotionSteps = 1
    /\ currentPromotionIndex = Some(1)

(***************************************************************************)
(* Properties of the lineup distribution                                   *)
(***************************************************************************)
Range(seq) == {seq[i] : i \in 1..Len(seq)}
\* The ids of the players in the filled slots of a lineup
FilledIds(lineup) == {lineup[i].player : i \in {j \in 1..Len(lineup) : ~lineup[j].empty}}
\* The slots of one position, in order
PositionSlots(lineup, position) ==
    LET AtPosition(slot) == slot.position = position
    IN  Filter(lineup, AtPosition)

\* C4: in one run no player id is in two slots, over both lineups and all
\* positions: a player taken at RB is not placed again at FLEX, and a player
\* given to one side is not given to the other.
C4_NoEntityTwice ==
    LET all == lineupA \o lineupB
    IN  \A i, j \in 1..Len(all) :
            (i # j /\ ~all[i].empty /\ ~all[j].empty) => all[i].player # all[j].player

\* Side A holds at RB the player side B ranks first for FLEX, and side B's
\* FLEX slot is filled with another player
C4_Witness ==
    /\ dpc = "done"
    /\ rankings2["FLEX"] # <<>>
    /\ \E i \in 1..Len(lineupA) : \E j \in 1..Len(lineupB) :
          /\ lineupA[i].position = "RB" /\ ~lineupA[i].empty
          /\ lineupA[i].player = rankings2["FLEX"][1]
          /\ lineupB[j].position = "FLEX" /\ ~lineupB[j].empty

\* The inputs rankedIdsA = [X, Y], rankedIdsB = [X, Z], capacity 2, every
\* player known, with X = 1, Y = 2, Z = 3 at RB
ConflictExample ==
    /\ rankings1["RB"] = <<1, 2>>
    /\ rankings2["RB"] = <<1, 3>>
    /\ rosterSettings["RB"] = 2
    /\ {1, 2, 3} \subseteq DOMAIN players

SlotCount(lineup, position) == Len(PositionSlots(lineup, position))
\* Every position has as many slots on each side as rosterSettings asks for
ExactSlotCounts ==
    \A p \in PositionSet :
        /\ SlotCount(lineupA, p) = rosterSettings[p]
        /\ SlotCount(lineupB, p) = rosterSettings[p]
\* A slot is an empty slot or holds a player
SlotsWellFormed ==
    \A lineup \in {lineupA, lineupB} : \A i \in 1..Len(lineup) :
        lineup[i].empty <=> lineup[i].player = null

\* The slots asked for, and the ids ranked, from position number i on
RECURSIVE SlotsFrom(_)
SlotsFrom(i) ==
    IF i > Len(POSITIONS) THEN 0
    ELSE rosterSettings[POSITIONS[i]] + SlotsFrom(i + 1)
RECURSIVE RankedFrom(_)
RankedFrom(i) ==
    IF i > Len(POSITIONS) THEN 0
    ELSE Len(rankings1[POSITIONS[i]]) + Len(rankings2[POSITIONS[i]]) + RankedFrom(i + 1)

\* The work a run has left: the slots still to emit, each weighted by more
\* than the two pools can ever hold, plus the ids in the pools
RunMeasure ==
    CASE dpc = "idle" -> 2 + SlotsFrom(1) * (RankedFrom(1) + 1) + RankedFrom(1)
      [] dpc = "loop" -> 1 + (SlotsFrom(posIdx) - filled) * (RankedFrom(1) + 1)
                           + Len(poolA) + Len(poolB)
      [] OTHER -> 0

\* A run inside the loop is at a position with a slot left to emit, where
\* one of the three branches of the loop body applies
LoopHasSlotLeft ==
    dpc = "loop" =>
        /\ posIdx \in 1..Len(POSITIONS)
        /\ filled < rosterSettings[POSITIONS[posIdx]]

\* C6 as stated: every run that returns a result has, for every position of
\* capacity c > 0, exactly c slots on each side, even when neither user has
\* any ranking.
C6_ExactSlotsAlways ==
    (dpc = "done" /\ success) => ExactSlotCounts

\* C6, amended: every run ends (each step lowers RunMeasure, a natural
\* number, and a run inside the loop has a step to take); a run that
\* returns a result has exactly c slots per side for every position of
\* capacity c, the unfilled ones empty, provided some position named in
\* rosterSettings has a ranked id of either user; with no ranked id at all
\* the result has no slot.
C6_ExactSlotsUnlessNoRankings ==
    /\ [][RunMeasure' < RunMeasure]_vars
    /\ [](RunMeasure >= 0 /\ LoopHasSlotLeft)
    /\ []((dpc = "done" /\ success) =>
            /\ SlotsWellFormed
            /\ IF AllPlayerIds = {}
               THEN lineupA = <<>> /\ lineupB = <<>>
               ELSE ExactSlotCounts)

\* A finished run in which a burn left the second RB slots empty
C6_Witness ==
    /\ dpc = "done"
    /\ success
    /\ rosterSettings["RB"] = 2
    /\ burned # {}
    /\ SlotCount(lineupA, "RB") = 2
    /\ PositionSlots(lineupA, "RB")[2].empty

LiveSum(lineup, n) ==
    LET S[k \in 0..n] == IF k = 0 THEN 0 ELSE S[k - 1] + lineup[k].live
    IN  S[n]

\* C7: the totals of a result are the sums of the live scores of the slots
\* of each side, an empty slot counting zero.
C7_TotalsAreLiveSums ==
    dpc = "done" =>
        /\ totalA = LiveSum(lineupA, Len(lineupA))
        /\ totalB = LiveSum(lineupB, Len(lineupB))
        /\ \A lineup \in {lineupA, lineupB} : \A i \in 1..Len(lineup) :
              lineup[i].empty => lineup[i].live = 0

\* A result with an empty slot, a filled slot whose stats are stale and a
\* positive total on side A
C7_Witness ==
    /\ dpc = "done"
    /\ totalA > 0
    /\ \E i \in 1..Len(lineupA) : lineupA[i].empty
    /\ \E i \in 1..Len(lineupA) :
          /\ ~lineupA[i].empty
          /\ players[lineupA[i].player].stats_week # currentWeek

\* The stat of the current week that the player of a slot has, if any
FreshStat(slot) ==
    IF slot.empty THEN 0
    ELSE IF players[slot.player].stats_week = currentWeek
    THEN players[slot.player].current_week_stats
    ELSE 0
\* The sum of these over the first n slots of a lineup
FreshSum(lineup, n) ==
    LET S[k \in 0..n] == IF k = 0 THEN 0 ELSE S[k - 1] + FreshStat(lineup[k])
    IN  S[n]

\* C26: the live score of a filled slot is the player's current-week stat
\* when the player's stats_week is the current week and zero otherwise, and
\* the totals of a result add up the stats of the current week only.
C26_StaleStatsCountZero ==
    /\ \A lineup \in {lineupA, lineupB} : \A i \in 1..Len(lineup) :
          ~lineup[i].empty =>
             LET player == players[lineup[i].player]
             IN  /\ player.stats_week = currentWeek =>
                       lineup[i].live = player.current_week_stats
                 /\ player.stats_week # currentWeek => lineup[i].live = 0
    /\ dpc = "done" =>
          /\ totalA = FreshSum(lineupA, Len(lineupA))
          /\ totalB = FreshSum(lineupB, Len(lineupB))

\* A result in which side B has a player with a stat of an earlier week,
\* scored zero, next to one with a stat of the current week
C26_Witness ==
    /\ dpc = "done"
    /\ \E i \in 1..Len(lineupB) :
          /\ ~lineupB[i].empty
          /\ players[lineupB[i].player].stats_week < currentWeek
          /\ players[lineupB[i].player].current_week_stats > 0
          /\ lineupB[i].live = 0
    /\ \E i \in 1..Len(lineupB) :
          /\ ~lineupB[i].empty
          /\ lineupB[i].live > 0
          /\ totalB = lineupB[i].live

\* The ids a ranked list has before this id
RankedAbove(ranked, id) ==
    {ranked[i] : i \in {j \in 1..Len(ranked) : \A k \in 1..j : ranked[k] # id}}

\* C34: the assigned set is the players in slots and the burned ones.  A
\* step that fills a slot gives each side a player of its ranked list for
\* the position that was not assigned, every player the side ranks above it
\* being assigned already; both players are then assigned and in neither
\* side's remaining pool.
C34_SlotHoldsTopUnassigned ==
    /\ [](assigned = FilledIds(lineupA) \cup FilledIds(lineupB) \cup burned)
    /\ [][(Len(lineupA') = Len(lineupA) + 1 /\ ~lineupA'[Len(lineupA')].empty) =>
            LET position == POSITIONS[posIdx]
                a == lineupA'[Len(lineupA')].player
                b == lineupB'[Len(lineupB')].player
            IN  /\ Len(lineupB') = Len(lineupB) + 1
                /\ ~lineupB'[Len(lineupB')].empty
                /\ lineupA'[Len(lineupA')].position = position
                /\ lineupB'[Len(lineupB')].position = position
                /\ a \in Range(rankings1[position]) \ assigned
                /\ b \in Range(rankings2[position]) \ assigned
                /\ RankedAbove(rankings1[position], a) \subseteq assigned
                /\ RankedAbove(rankings2[position], b) \subseteq assigned
                /\ assigned' = assigned \cup {a, b}
                /\ {a, b} \cap (Range(poolA') \cup Range(poolB')) = {}]_vars

\* A finished run in which side A's FLEX slot holds the player it ranks
\* second for FLEX, the one it ranks first being in side B's RB slot
C34_Witness ==
    /\ dpc = "done"
    /\ success
    /\ Len(rankings1["FLEX"]) = 2
    /\ \E i, j \in 1..Len(lineupA) :
          /\ lineupB[i].position = "RB" /\ ~lineupB[i].empty
          /\ lineupB[i].player = rankings1["FLEX"][1]
          /\ lineupA[j].position = "FLEX" /\ ~lineupA[j].empty
          /\ lineupA[j].player = rankings1["FLEX"][2]

\* The first id of a ranked list that is not assigned, null when there is none
FirstUnassigned(ranked) ==
    LET free == {i \in 1..Len(ranked) : ranked[i] \notin assigned}
    IN  IF free = {} THEN null
        ELSE ranked[CHOOSE i \in free : \A j \in free : i <= j]

\* What a step of the loop does
EmitsEmptyPair ==
    /\ lineupA' = Append(lineupA, EmptySlot(POSITIONS[posIdx]))
    /\ lineupB' = Append(lineupB, EmptySlot(POSITIONS[posIdx]))
BurnsPick(id) ==
    /\ lineupA' = lineupA
    /\ lineupB' = lineupB
    /\ filled' = filled
    /\ burned' = burned \cup {id}
    /\ assigned' = assigned \cup {id}
FillsBoth(a, b) ==
    /\ Len(lineupA') = Len(lineupA) + 1
    /\ Len(lineupB') = Len(lineupB) + 1
    /\ lineupA'[Len(lineupA')].player = a
    /\ lineupB'[Len(lineupB')].player = b
    /\ SubSeq(lineupA', 1, Len(lineupA)) = lineupA
    /\ SubSeq(lineupB', 1, Len(lineupB)) = lineupB

\* C35 as stated: a step of the loop emits an empty slot pair exactly when a
\* side has no unassigned id left in its ranked list for the position; with
\* an id left on both sides the step burns (same id) or fills both sides.
C35_EmptyIffNoIdLeft ==
    [][dpc = "loop" =>
          LET position == POSITIONS[posIdx]
              a == FirstUnassigned(rankings1[position])
              b == FirstUnassigned(rankings2[position])
          IN  /\ EmitsEmptyPair <=> (a = null \/ b = null)
              /\ (a # null /\ b # null) =>
                    IF a = b THEN BurnsPick(a) ELSE FillsBoth(a, b)]_vars

\* C35, amended: a step of the loop emits an empty slot pair exactly when a
\* side has no unassigned id left or the first unassigned id of a side has
\* no row among the fetched players; when both sides' first unassigned ids
\* have a row the step burns (same id) or fills both sides with them.
C35_EmptyIffNoPlayerAvailable ==
    [][dpc = "loop" =>
          LET position == POSITIONS[posIdx]
              a == FirstUnassigned(rankings1[position])
              b == FirstUnassigned(rankings2[position])
              available == /\ a # null /\ a \in DOMAIN players
                           /\ b # null /\ b \in DOMAIN players
          IN  /\ EmitsEmptyPair <=> ~available
              /\ available =>
                    IF a = b THEN BurnsPick(a) ELSE FillsBoth(a, b)]_vars

\* A finished run in which both sides ranked players at RB, side A's first
\* one has no row, and the RB slots are empty on both sides with nobody
\* assigned
C35_Witness ==
    /\ dpc = "done"
    /\ success
    /\ rosterSettings["RB"] = 2
    /\ rosterSettings["FLEX"] = 0
    /\ Len(rankings1["RB"]) = 2
    /\ rankings2["RB"] # <<>>
    /\ rankings1["RB"][1] \notin DOMAIN players
    /\ rankings1["RB"][2] \in DOMAIN players
    /\ assigned = {}
    /\ Len(lineupA) = 2 /\ Len(lineupB) = 2
    /\ \A i \in 1..2 : lineupA[i].empty /\ lineupB[i].empty

\* C38: a run that returns a result for the users (1, 2) returns what the
\* call for the users (2, 1), on the same roster settings, players and
\* week, returns with the sides exchanged: the lineup of each user, slot by
\* slot, and the total of each user are the same in both calls.
C38_DistributionIsSymmetric ==
    (dpc = "done" /\ success) =>
        LET mirror == distributeMatchupLineups(rankings2, rankings1)
        IN  /\ lineupA = mirror.lineupB
            /\ lineupB = mirror.lineupA
            /\ totalA = mirror.totalB
            /\ totalB = mirror.totalA

\* A finished run that filled slots for both sides at both positions, with
\* a higher total for side B
C38_Witness ==
    /\ dpc = "done"
    /\ success
    /\ totalA < totalB
    /\ \E i, j \in 1..Len(lineupA) :
          /\ lineupA[i].position = "RB" /\ ~lineupA[i].empty
          /\ lineupA[j].position = "FLEX" /\ ~lineupA[j].empty
          /\ ~lineupB[j].empty

(***************************************************************************)
(* Properties of the matchup                                               *)
(***************************************************************************)
\* The count a settings object gives a position, a missing entry being 0
CountOf(m, pos) == IF pos \in DOMAIN m THEN m[pos] ELSE 0
\* The columns of user u in a row
SettingsOf(row, u) == IF row.user1_id = u THEN row.user1_settings ELSE row.user2_settings
ConfirmedOf(row, u) == IF row.user1_id = u THEN row.user1_confirmed ELSE row.user2_confirmed

C9_EditLeavesOtherSide ==
    [][\A u \in Users : \A position \in EditPositions :
       \A increment \in {-1, 1} : \A ok \in BOOLEAN :
          updatePositionCount(u, position, increment, ok) =>
             LET id == session[u].matchupId
             IN  /\ SettingsOf(matchups'[id], Opponent(u))
                      = SettingsOf(matchups[id], Opponent(u))
                 /\ ConfirmedOf(matchups'[id], Opponent(u))
                      = ConfirmedOf(matchups[id], Opponent(u))]_vars

\* User 1 has edited the settings of an active matchup that user 2 had
\* confirmed: the row is pending again with user 2's flag still set and
\* user 2's settings still the defaults
C9_Witness ==
    /\ Len(matchups) = 1
    /\ matchups[1].status = "pending"
    /\ session[2].status = "active"
    /\ ConfirmedOf(matchups[1], 2)
    /\ ~ConfirmedOf(matchups[1], 1)
    /\ SettingsOf(matchups[1], 1) # SettingsOf(matchups[1], 2)

\* C10: a confirmation written while the other side's flag in the row is
\* true sets the row's status to active in the same write.
C10_ConfirmActivates ==
    [][\A u \in Users :
          confirmMatchup(u, TRUE) =>
             LET id == session[u].matchupId
             IN  ConfirmedOf(matchups[id], Opponent(u)) =>
                    matchups'[id].status = "active"]_vars

\* The rows of the table
Rows == 1..Len(matchups)

\* C11: a successful updatePositionCount of one user sets that user's
\* confirmation flag in the row to false and, if the row's status was
\* active, sets it to pending in the same write.
C11_EditRevertsActive ==
    [][\A u \in Users : \A position \in EditPositions : \A increment \in {-1, 1} :
          updatePositionCount(u, position, increment, TRUE) =>
             LET id == session[u].matchupId
             IN  /\ ~ConfirmedOf(matchups'[id], u)
                 /\ matchups[id].status = "active" =>
                       matchups'[id].status = "pending"]_vars

\* C12: a row whose status is active has both confirmation flags true.
C12_ActiveHasBothConfirmed ==
    \A id \in Rows :
        matchups[id].status = "active" =>
            matchups[id].user1_confirmed /\ matchups[id].user2_confirmed

\* C13: a row whose status is final keeps that status in every step.
C13_FinalStaysFinal ==
    [][\A id \in Rows :
          matchups[id].status = "final" => matchups'[id].status = "final"]_vars

\* The outcome a row holds: the winner and the two scores
Outcome(row) == <<row.winner_id, row.user1_score, row.user2_score>>

\* C14: a step taken while the row's status is not active neither makes it
\* final nor changes the winner or the scores it holds.
C14_FinalizeOnlyFromActive ==
    [][\A id \in Rows :
          matchups[id].status # "active" =>
             /\ Outcome(matchups'[id]) = Outcome(matchups[id])
             /\ matchups'[id].status = "final" => matchups[id].status = "final"]_vars

\* The row is final, holds two scores, and its winner is the user with the
\* strictly higher score, nobody when the scores are equal
FinalConsistent(row) ==
    /\ row.status = "final"
    /\ row.user1_score # None
    /\ row.user2_score # None
    /\ row.winner_id = IF row.user1_score[1] > row.user2_score[1] THEN row.user1_id
                       ELSE IF row.user2_score[1] > row.user1_score[1] THEN row.user2_id
                       ELSE null

\* C15: every step that makes a row final, or changes the winner or a score
\* it holds, writes the status final, the two scores and the winner
\* together, the winner being the side with the strictly greater score and
\* nobody exactly when the two scores are equal; every final row is so.
C15_WinnerIsStrictlyGreater ==
    /\ [][\A id \in Rows :
             \/ matchups'[id].status = "final" /\ matchups[id].status # "final"
             \/ Outcome(matchups'[id]) # Outcome(matchups[id])
             => FinalConsistent(matchups'[id])]_vars
    /\ [](\A id \in Rows : matchups[id].status = "final" => FinalConsistent(matchups[id]))

\* A row finalized with the scores 0 and 1 whose winner is its second user
C15_Witness ==
    \E id \in Rows :
        /\ matchups[id].status = "final"
        /\ matchups[id].user1_score = Some(0)
        /\ matchups[id].user2_score = Some(1)
        /\ matchups[id].winner_id = matchups[id].user2_id

\* C16: the scores that a tick's finalizeMatchup writes are the live totals
\* of the two users' lineups at that moment.
C16_ScoresAreCurrentTotals ==
    [][\A u \in Users : \A shouldPoll \in BOOLEAN :
          pollerTick(u, TRUE, shouldPoll, TRUE, liveTotals) =>
             LET row == matchups'[session[u].captured[1].matchupId]
             IN  /\ row.user1_score = Some(liveTotals[row.user1_id])
                 /\ row.user2_score = Some(liveTotals[row.user2_id])]_vars

\* C17: a screen that has a poller able to tick, started by the effect or
\* left over from an earlier start, is loaded and shows the status active.
C17_TicksOnlyWhileActive ==
    \A u \in Users :
        session[u].poll # "off" \/ session[u].leaked # {} =>
            ~session[u].loading /\ session[u].status = "active"

\* C18: a tick that finds every game final refreshes no stats and runs no
\* distribution, and when its finalizeMatchup has written, the screen is
\* left without any poller that could tick again.
C18_FinalTickStopsPolling ==
    [][\A u \in Users : \A shouldPoll, ok \in BOOLEAN :
          pollerTick(u, TRUE, shouldPoll, ok, liveTotals) =>
             /\ liveTotals' = liveTotals
             /\ session'[u].totalA = session[u].totalA
             /\ session'[u].totalB = session[u].totalB
             /\ session'[u].distSettings = session[u].distSettings
             /\ ok => session'[u].poll = "off" /\ session'[u].leaked = {}]_vars

\* C19: a row that is pending with both confirmation flags true is on its
\* way to active: some loaded screen still offers the confirmation.
C19_BothConfirmedConverges ==
    \A id \in Rows :
        /\ matchups[id].status = "pending"
        /\ matchups[id].user1_confirmed
        /\ matchups[id].user2_confirmed
        => \E u \in Users :
              /\ ~session[u].loading
              /\ session[u].matchupId = id
              /\ shouldShowConfirm(session[u])

\* C20: the table holds at most one row of the pair.
C20_OneRowPerPair == Len(matchups) <= 1

\* C21: when the write of an updatePositionCount fails, the row is left as
\* it was, the screen's settings are again the ones it held when the button
\* was pressed, and the screen's status and confirmation flags are as they
\* were before the answer.
C21_FailedEditReverts ==
    [][\A u \in Users :
          settlePositionCount(u, FALSE) =>
             /\ matchups' = matchups
             /\ session'[u].mySettings = session[u].edit[1].mySettings
             /\ session'[u].mySettings # session[u].edit[1].newSettings
             /\ session'[u].status = session[u].status
             /\ session'[u].user1Confirmed = session[u].user1Confirmed
             /\ session'[u].user2Confirmed = session[u].user2Confirmed]_vars

\* The write of an edit of user 1 on a confirmed matchup has failed: the
\* screen shows the default settings and its confirmation again, and the
\* row still has them
C21_Witness ==
    /\ Len(matchups) = 1
    /\ session[1].reverted
    /\ session[1].mySettings = DEFAULT_SETTINGS
    /\ session[1].user1Confirmed
    /\ matchups[1].user1_confirmed
    /\ matchups[1].user1_settings = DEFAULT_SETTINGS

\* What a screen displays of the distribution: the totals, and the settings
\* the lineups were distributed with
Displayed(s) == <<s.totalA, s.totalB, s.distSettings, s.distRender>>

\* The outcome of a tick of user u that found a game not final
TickOutcome(u, shouldPoll, ok, newTotals) ==
    /\ matchups' = matchups
    /\ IF shouldPoll /\ ok
       THEN \* the distributor has run on the snapshot just written
            /\ liveTotals' = newTotals
            /\ session'[u].totalA = liveTotals'[u]
            /\ session'[u].totalB = liveTotals'[Opponent(u)]
            /\ session'[u].distSettings # None
       ELSE IF shouldPoll
       THEN Displayed(session'[u]) = Displayed(session[u])
       ELSE /\ liveTotals' = liveTotals
            /\ [session'[u] EXCEPT !.poll = session[u].poll] = session[u]
    /\ session'[Opponent(u)] = session[Opponent(u)]

HeldTotal(u, c, w) == IF w = u THEN c.totalA ELSE c.totalB

\* What the finalizeMatchup of render c of user u's screen has written
FinalizedBy(u, c) ==
    LET row == matchups'[c.matchupId]
    IN  /\ row.status = "final"
        /\ row.user1_id = matchups[c.matchupId].user1_id
        /\ row.user2_id = matchups[c.matchupId].user2_id
        /\ row.user1_score = Some(HeldTotal(u, c, row.user1_id))
        /\ row.user2_score = Some(HeldTotal(u, c, row.user2_id))
        /\ row.winner_id \in {row.user1_id, row.user2_id, null}

\* C40: whichever user's screen finalizes, by its poller or by an interval
\* left over, the row's user1_score is the total that screen's render holds
\* for the row's user1 and its user2_score the total it holds for the row's
\* user2, and the winner_id written is one of the row's two users or null;
\* every row of the table has a winner_id of that kind.
C40_ScoresFollowStoredOrder ==
    \* a tick that finds every game final does not read shouldPoll
    /\ [][\A u \in Users :
             /\ pollerTick(u, TRUE, TRUE, TRUE, liveTotals)
                   => FinalizedBy(u, session[u].captured[1])
             /\ \A c \in session[u].leaked :
                   leakedTick(u, c, TRUE, TRUE, TRUE, liveTotals)
                      => FinalizedBy(u, c)]_vars
    /\ [](\A id \in Rows :
             matchups[id].winner_id \in {matchups[id].user1_id, matchups[id].user2_id, null})

\* User 2's screen, not user1 of the row, has finalized with unequal totals
\* while user 1's screen still shows the matchup as live
C40_Witness ==
    \E id \in Rows :
        /\ matchups[id].status = "final"
        /\ matchups[id].user1_id = 1
        /\ matchups[id].user1_score # matchups[id].user2_score
        /\ session[2].matchupId = id
        /\ ~session[2].amIUser1
        /\ session[2].status = "final"
        /\ session[1].status = "active"

(***************************************************************************)
(* Further properties of the ranking wizard                                *)
(***************************************************************************)
\* C23: a reset, in whatever state of the session, leaves every player
\* uncompared and no promotion under way and keeps every player's place and
\* rank; the row keeps its ranked_ids, and its comparison_state is emptied
\* by the update (a failed update leaves the row as it was).
C23_ResetKeepsOrder ==
    [][handleReset =>
          /\ Len(rankings') = Len(rankings)
          /\ \A i \in 1..Len(rankings) :
                /\ rankings'[i].id = rankings[i].id
                /\ rankings'[i].rank = rankings[i].rank
                /\ ~rankings'[i].isCompared
          /\ ~isPromoting'
          /\ promotedPlayerId' = null
          /\ currentPromotionIndex' = None
          /\ rankingRow'.exists = rankingRow.exists
          /\ rankingRow'.ranked_ids = rankingRow.ranked_ids
          /\ storeFailures' = storeFailures => rankingRow'.comparison_state = <<>>
          /\ storeFailures' # storeFailures => rankingRow' = rankingRow]_vars

\* A session of three or more players was reset after player 2 had been
\* moved to the top and saved: the order is kept, nobody is compared, the
\* row has its ranked_ids and an empty comparison_state
C23_Witness ==
    /\ Len(rankings) >= 3
    /\ rankings[1].id = 2
    /\ \A i \in 1..Len(rankings) : ~rankings[i].isCompared
    /\ ~isPromoting
    /\ rankingRow.exists
    /\ rankingRow.ranked_ids = [i \in 1..Len(rankings) |-> rankings[i].id]
    /\ rankingRow.comparison_state = <<>>

\* The ids of the players of the session
IdsOf(rs) == {rs[i].id : i \in 1..Len(rs)}

\* C27: processSelection called with a winner or a loser id that no player
\* of the rankings has throws, and only then; the rankings are as they
\* were and no promotion is asked for or under way.
C27_UnknownIdThrows ==
    resolved # None =>
        LET call == resolved[1]
            unknown == call.winnerId \notin IdsOf(rankings)
                          \/ call.loserId \notin IdsOf(rankings)
        IN  /\ call.result.threw <=> unknown
            /\ unknown =>
                  /\ call.result.rankings = rankings
                  /\ ~call.result.shouldPromote
                  /\ call.result.promotedPlayerId = null
                  /\ ~isPromoting
                  /\ promotedPlayerId = null

\* processSelection has thrown for the winner id 4 among three players
C27_Witness ==
    /\ Len(rankings) = 3
    /\ resolved # None
    /\ resolved[1].winnerId = 4
    /\ resolved[1].loserId = rankings[1].id
    /\ resolved[1].result.threw

\* The ranks of the players not yet compared
UncomparedRanks == {rankings[i].rank : i \in {j \in 1..Len(rankings) : ~rankings[j].isCompared}}
\* The player that holds rank r
AtRank(r) == CHOOSE p \in {rankings[i] : i \in 1..Len(rankings)} : p.rank = r

\* C28: findNextComparison returns null exactly when nobody is uncompared
\* or there are fewer than two players.  Otherwise, r being the lowest rank
\* number of an uncompared player, it returns that player with the player
\* of rank 2 when r = 1, and the player of rank r - 1 with that player when
\* r > 1: two players of adjacent ranks, the better one first.
C28_NextPairIsAdjacent ==
    nextPair # None =>
        LET pair == nextPair[1]
        IN  /\ pair = <<>> <=> (UncomparedRanks = {} \/ Len(rankings) < 2)
            /\ pair # <<>> =>
                  \E r \in UncomparedRanks :
                     /\ \A q \in UncomparedRanks : r <= q
                     /\ r = 1 => pair = <<AtRank(1), AtRank(2)>>
                     /\ r > 1 => pair = <<AtRank(r - 1), AtRank(r)>>
                     /\ pair[2].rank = pair[1].rank + 1

\* Of four players the first two are compared: findNextComparison has
\* returned the players of ranks 2 and 3
C28_Witness ==
    /\ Len(rankings) = 4
    /\ rankings[1].isCompared /\ rankings[2].isCompared
    /\ ~rankings[3].isCompared
    /\ nextPair = Some(<<rankings[2], rankings[3]>>)

\* The rank of the player with this id
RankOf(id) == (CHOOSE p \in {rankings[i] : i \in 1..Len(rankings)} : p.id = id).rank

\* C29: processSelection with the loser at rank 1 and the winner at rank 2
\* returns the rankings with these two players in each other's place and
\* rank, both compared, everybody else as before, and asks for no promotion.
C29_TopSwap ==
    resolved # None =>
        LET call == resolved[1]
        IN  /\ call.winnerId \in IdsOf(rankings)
            /\ call.loserId \in IdsOf(rankings)
            /\ RankOf(call.loserId) = 1
            /\ RankOf(call.winnerId) = 2
            => /\ ~call.result.threw
               /\ ~call.result.shouldPromote
               /\ call.result.promotedPlayerId = null
               /\ call.result.rankings =
                     [i \in 1..Len(rankings) |->
                        IF i = 1
                        THEN [id |-> call.winnerId, rank |-> 1, isCompared |-> TRUE]
                        ELSE IF i = 2
                        THEN [id |-> call.loserId, rank |-> 2, isCompared |-> TRUE]
                        ELSE rankings[i]]

\* The players 1, 2, 3, 4 in this order, nobody compared: with 2 chosen over
\* 1 processSelection has returned them in the order 2, 1, 3, 4
C29_Witness ==
    /\ rankings = [i \in 1..4 |-> [id |-> i, rank |-> i, isCompared |-> FALSE]]
    /\ resolved # None
    /\ resolved[1].winnerId = 2
    /\ resolved[1].loserId = 1
    /\ [i \in 1..4 |-> resolved[1].result.rankings[i].id] = <<2, 1, 3, 4>>
    /\ resolved[1].result.rankings[1].isCompared
    /\ resolved[1].result.rankings[2].isCompared
    /\ ~resolved[1].result.rankings[3].isCompared

\* C30: a selection of the player ranked below the other one of the pair,
\* the pair not being ranks 2 over 1, leaves the rankings as they are and
\* starts a promotion of the winner whose first duel is against the player
\* ranked immediately above the loser, not against the loser.
C30_PromotionStartsAboveLoser ==
    [][\A id \in PlayerIds :
          handleSelection(id) =>
             LET pair == originalComparisonIds'
                 loserId == IF pair.playerAId = id THEN pair.playerBId
                            ELSE pair.playerAId
             IN  /\ RankOf(id) > RankOf(loserId)
                 /\ ~(RankOf(loserId) = 1 /\ RankOf(id) = 2)
                 => /\ rankings' = rankings
                    /\ isPromoting'
                    /\ promotedPlayerId' = id
                    /\ currentPromotionIndex' # None
                    /\ currentPromotionIndex'[1] \in 1..Len(rankings)
                    /\ rankings'[currentPromotionIndex'[1]].rank = RankOf(loserId) - 1
                    /\ rankings'[currentPromotionIndex'[1]].id # loserId]_vars

\* Player 3 has been chosen over player 2 in the initial order of four: a
\* promotion of player 3 has started and its first duel is against player 1
C30_Witness ==
    /\ Len(rankings) = 4
    /\ \A i \in 1..4 : rankings[i].id = i
    /\ isPromoting
    /\ promotedPlayerId = 3
    /\ originalComparisonIds = [playerAId |-> 2, playerBId |-> 3]
    /\ promotionSteps = 0
    /\ currentPromotionIndex = Some(1)

\* C31: processSelection with the winner ranked above the loser returns the
\* rankings with the winner and the loser compared and nothing else changed:
\* every player keeps its place, id and rank, every other player keeps its
\* flag, and no promotion is asked for.
C31_HigherWinsMarksBoth ==
    resolved # None =>
        LET call == resolved[1]
            after == call.result.rankings
        IN  /\ call.winnerId \in IdsOf(rankings)
            /\ call.loserId \in IdsOf(rankings)
            /\ RankOf(call.winnerId) < RankOf(call.loserId)
            => /\ ~call.result.threw
               /\ ~call.result.shouldPromote
               /\ call.result.promotedPlayerId = null
               /\ Len(after) = Len(rankings)
               /\ \A i \in 1..Len(rankings) :
                     /\ after[i].id = rankings[i].id
                     /\ after[i].rank = rankings[i].rank
                     /\ after[i].isCompared =
                           IF rankings[i].id \in {call.winnerId, call.loserId}
                           THEN TRUE
                           ELSE rankings[i].isCompared

\* Of four players in the order 1, 2, 3, 4 only player 4 is compared: with 2
\* chosen over 3 processSelection has returned the same order with players
\* 2, 3 and 4 compared and player 1 not
C31_Witness ==
    /\ Len(rankings) = 4
    /\ \A i \in 1..4 : rankings[i].id = i /\ (rankings[i].isCompared <=> i = 4)
    /\ resolved # None
    /\ resolved[1].winnerId = 2
    /\ resolved[1].loserId = 3
    /\ [i \in 1..4 |-> resolved[1].result.rankings[i].isCompared]
          = <<FALSE, TRUE, TRUE, TRUE>>
    /\ [i \in 1..4 |-> resolved[1].result.rankings[i].id] = <<1, 2, 3, 4>>

\* The place of the player with this id in the array
PlaceOf(id) == CHOOSE i \in 1..Len(rankings) : rankings[i].id = id

\* C32: when the promoted player is chosen in the duel against the player at
\* the top (promotion index 1), the cycle ends with the promoted player at
\* place and rank 1; every player that was above its old place is one place
\* and one rank lower, in the same order, and every player below its old
\* place is where it was.
C32_PromotionToTop ==
    [][\A id \in PlayerIds :
          /\ handlePromotion(id)
          /\ id = promotedPlayerId
          /\ currentPromotionIndex = Some(1)
          => LET old == PlaceOf(id)
             IN  /\ ~isPromoting'
                 /\ Len(rankings') = Len(rankings)
                 /\ rankings'[1].id = id
                 /\ rankings'[1].rank = 1
                 /\ \A i \in 1..Len(rankings) :
                       /\ i < old => /\ rankings'[i + 1].id = rankings[i].id
                                     /\ rankings'[i + 1].rank = rankings[i].rank + 1
                       /\ i > old => /\ rankings'[i].id = rankings[i].id
                                     /\ rankings'[i].rank = rankings[i].rank]_vars

\* The example of three players 1, 2, 3: 1 was chosen over 2, then 3 over 2,
\* then 3 over 1 in the one duel of the promotion; the order is 3, 1, 2
C32_Witness ==
    /\ Len(rankings) = 3
    /\ [i \in 1..3 |-> rankings[i].id] = <<3, 1, 2>>
    /\ [i \in 1..3 |-> rankings[i].rank] = <<1, 2, 3>>
    /\ ~isPromoting
    /\ originalComparisonIds = [playerAId |-> 2, playerBId |-> 3]
    /\ promotionSteps = 1

\* The ids of an array in its order, this id left out
IdsWithout(rs, id) ==
    LET ids == [i \in 1..Len(rs) |-> rs[i].id]
    IN  RemoveAt(ids, CHOOSE i \in 1..Len(rs) : rs[i].id = id)

\* The entry of the next rankings with this id
NextEntry(id) == CHOOSE p \in {rankings'[i] : i \in 1..Len(rankings')} : p.id = id

\* C33: a step of handlePromotion that ends the promotion leaves the
\* promoted player and the two players of the initiating comparison
\* compared; and when it ends because the other player of the duel was
\* chosen, the promoted player has the rank right below that player's and
\* all other players are in the order they were in.
C33_LostDuelSettlesBelowWinner ==
    [][\A id \in PlayerIds :
          /\ handlePromotion(id)
          /\ ~isPromoting'
          => /\ NextEntry(promotedPlayerId).isCompared
             /\ NextEntry(originalComparisonIds.playerAId).isCompared
             /\ NextEntry(originalComparisonIds.playerBId).isCompared
             /\ promotedPlayerId \in {originalComparisonIds.playerAId,
                                       originalComparisonIds.playerBId}
             /\ id # promotedPlayerId =>
                   /\ id = rankings[currentPromotionIndex[1]].id
                   /\ NextEntry(promotedPlayerId).rank = NextEntry(id).rank + 1
                   /\ \A i \in 1..Len(rankings') : rankings'[i].rank = i
                   /\ IdsWithout(rankings', promotedPlayerId)
                         = IdsWithout(rankings, promotedPlayerId)]_vars

\* Of four players 1, 2, 3, 4: 1 was chosen over 2, then 3 over 2, then 1
\* over 3 in the duel of the promotion; the order is 1, 3, 2, 4 and the
\* first three are compared
C33_Witness ==
    /\ Len(rankings) = 4
    /\ [i \in 1..4 |-> rankings[i].id] = <<1, 3, 2, 4>>
    /\ [i \in 1..4 |-> rankings[i].isCompared] = <<TRUE, TRUE, TRUE, FALSE>>
    /\ ~isPromoting
    /\ originalComparisonIds = [playerAId |-> 2, playerBId |-> 3]
    /\ promotionSteps = 1

\* C37: with a user whose every choice follows one order of preference, a
\* session in which no pair is left to compare has the players in that
\* order; and outside a promotion the compared players are the first k of
\* the ranking, for some k, and are in that order among themselves.
C37_ConsistentChoicesSort ==
    /\ (WizardComplete /\ Len(rankings) >= 2) =>
          /\ AllCompared(rankings)
          /\ \A i \in 1..Len(rankings) : rankings[i].id = i /\ rankings[i].rank = i
    /\ ~isPromoting =>
          \E k \in 0..Len(rankings) :
             /\ \A i \in 1..Len(rankings) : rankings[i].isCompared <=> i <= k
             /\ \A i, j \in 1..k :
                   i < j => Prefers(rankings[i].id, rankings[j].id) = rankings[i].id

\* A session of four players is complete and in the order of the user's
\* preference; the last player placed was chosen over player 4 and went to
\* the top in two duels
C37_Witness ==
    /\ Len(rankings) = 4
    /\ WizardComplete
    /\ \A i \in 1..4 : rankings[i].id = i
    /\ promotionSteps = 2
    /\ originalComparisonIds = [playerAId |-> 4, playerBId |-> 1]
    /\ rankingRow.exists
    /\ rankingRow.ranked_ids = <<1, 2, 3, 4>>

\* C39: a resume that loads the saved row gives the session the players in
\* the saved order, each with the compared flag that was saved for it, so
\* that the pair the wizard asks next is no pair of two players saved as
\* compared.
C39_ResumeRestoresSavedState ==
    [][(resume(TRUE) /\ rankingRow.exists /\ rankingRow.ranked_ids # <<>>) =>
          LET saved == rankingRow.comparison_state
              SavedCompared(id) == id \in DOMAIN saved /\ saved[id].isCompared
              pair == findNextComparison(rankings')
          IN  /\ [i \in 1..Len(rankings') |-> rankings'[i].id] = rankingRow.ranked_ids
              /\ \A i \in 1..Len(rankings') :
                    rankings'[i].isCompared = SavedCompared(rankings'[i].id)
              /\ pair # <<>> =>
                    ~(SavedCompared(pair[1].id) /\ SavedCompared(pair[2].id))]_vars

(***************************************************************************)
(* Properties of the live scoring service                                  *)
(***************************************************************************)
\* The records that the run has written
WrittenIds == {id \in DOMAIN statsTable : statsTable[id] = week}

\* C22: the batches are written in order; once a batch write has failed no
\* batch is written any more, and the object returned carries the number of
\* records written up to then.
C22_PartialCountReported ==
    /\ [](syncPc = "done" =>
            /\ syncResult # None
            /\ syncResult[1].count = Some(Cardinality(WrittenIds)))
    /\ [](\A k \in 1..Len(updates) :
            updates[k] \in WrittenIds <=> k <= batchStart)
    /\ [][syncPc = "done" => statsTable' = statsTable]_vars

\* The hours in which the games kick off
Kickoffs == {games[i].start_time : i \in 1..Len(games)}

\* C24: shouldPollScores(games) is true exactly when there is a game and the
\* time lies between the earliest kickoff minus 2 hours and the latest
\* kickoff plus 4 hours, both ends included; it is false for no games.
C24_PollWindowIsClosed ==
    pollDecision # None =>
        pollDecision[1] =
            /\ games # <<>>
            /\ \E k \in Kickoffs : now >= k - 2
            /\ \E k \in Kickoffs : now <= k + 4
            /\ \A first \in Kickoffs : \A last \in Kickoffs :
                  (\A k \in Kickoffs : first <= k /\ k <= last) =>
                     now \in (first - 2)..(last + 4)

\* With kickoffs at hours 2 and 3, shouldPollScores has answered true at
\* hour 7, the last hour of the window
C24_Witness ==
    /\ Kickoffs = {2, 3}
    /\ now = 7
    /\ pollDecision = Some(TRUE)

\* C25 as stated: areAllGamesFinal(games) is true exactly when every game of
\* the list is complete or closed, whatever the list.
C25_AllFinalIffEveryGameFinal ==
    finalDecision # None =>
        finalDecision[1] =
            \A i \in 1..Len(games) : games[i].status \in {"complete", "closed"}

\* C25 amended: areAllGamesFinal(games) is true exactly when the list has a
\* game and every game of it is complete or closed; it is false for the
\* empty list.
C25_AllFinalIffNonEmptyAndFinal ==
    finalDecision # None =>
        /\ games = <<>> => finalDecision[1] = FALSE
        /\ games # <<>> =>
              finalDecision[1] =
                 \A i \in 1..Len(games) : games[i].status \in {"complete", "closed"}

\* areAllGamesFinal has answered true for a complete and a closed game
C25_Witness ==
    /\ Len(games) = 2
    /\ games[1].status = "complete"
    /\ games[2].status = "closed"
    /\ finalDecision = Some(TRUE)

=============================================================================
